---- MODULE Spec2Model ----
(***************************************************************************)
(* Model of the connection layer of davinci_resolve_mcp:                   *)
(* resolve_api.py, class ResolveAPI (the lazy singleton, its per-instance  *)
(* connection cache and the health check of _ensure_connected).            *)
(*                                                                         *)
(* Every thread of the server is a caller: it fetches the singleton with   *)
(* get_instance(), may drop it with reset(), and asks the instance it      *)
(* holds for a live handle with _ensure_connected().  The methods are      *)
(* modelled statement by statement wherever another thread can interleave. *)
(* The external application is the environment: it starts, exits, and      *)
(* answers the liveness probe and the connection request.  GetVersion()    *)
(* answers on a handle of the running application and raises on any other; *)
(* scriptapp() returns a new root object, returns None, or raises.         *)
(* time.monotonic() is read in whole seconds.                              *)
(*                                                                         *)
(* Spec is the whole class, with time advancing one freshness window at a  *)
(* time.  CacheSpec is the cache of one constructed object used by every   *)
(* thread, with time advancing second by second.                           *)
(***************************************************************************)
EXTENDS Integers, FiniteSets, Sequences, TLC

\* ---------------------------------------------------------------- bounds
NThreads == 2       \* caller threads
MaxInstances == 2   \* ResolveAPI objects ever constructed
MaxHandles == 2     \* root objects the bridge ever hands out
MaxClock == 6       \* last reading of the monotonic clock
MaxItems == 3       \* items on the track find_item scans
MaxCalls == 3       \* external call sites of a tool that are given an answer
MaxSlope == 4       \* longest Slope list given to color_set_cdl

\* ------------------------------------------------------ program constants
HEALTH_CHECK_TTL == 5
InitialHealthCheck == 0

Threads == 1..NThreads
\* The threads that run in Spec, where they also use get_instance() and
\* reset().
Callers == {1, 2}
Instances == 1..MaxInstances
Handles == 1..MaxHandles
None == 0           \* Python's None, for a handle and for an instance alike
NoThread == None    \* a lock nobody holds
NoCall == -1        \* the thread has not returned from get_instance() yet

VARIABLES
    \* class state of ResolveAPI
    instance,           \* ResolveAPI._instance: an instance or None
    cls_lock,           \* ResolveAPI._lock: the thread holding it, or NoThread
    created,            \* number of ResolveAPI objects constructed so far
    \* per-instance state (fields set by __init__)
    resolve,            \* self._resolve: a handle or None
    script_module,      \* self._script_module is loaded
    last_health_check,  \* self._last_health_check
    conn_lock,          \* self._conn_lock: the thread holding it, or NoThread
    \* per-thread state
    pc,                 \* the statement the thread is at
    api,                \* the object the thread got from get_instance()
    now,                \* the local `now` of _ensure_connected
    outcome,            \* how the call ended: "handle", "NotRunning", "Error"
    ret,                \* the value it returned
    \* the environment
    clock,              \* time.monotonic()
    appUp,              \* the application is running
    live,               \* handles that refer to the running application
    issued,             \* number of handles the bridge has handed out
    \* history of the call in progress (read by the properties only, never
    \* by the program)
    entryHandle,        \* self._resolve when the thread took the lock
    entryCheck,         \* self._last_health_check at that moment
    probes,             \* liveness probes issued by the call
    probeRaised,        \* the probe of the call raised
    loads,              \* loads of the bridging library by the call
    requests,           \* connection requests issued by the call
    met,                \* what the connection attempt of the call met
    wasLive,            \* the handle of the call was seen live during it
    \* history of each cache
    cache_history,      \* succeeded and lastOutcome are being recorded
    succeeded,          \* a call on this object has returned a handle
    lastOutcome,        \* outcome of the last call that ended on this object
    stampFor,           \* the handle last_health_check was last written for
    obtainedAt,         \* the time the current handle was obtained
    \* history of the singleton (read by the properties only)
    history,            \* the history of the singleton is being recorded
    resets,             \* number of reset() calls completed so far
    gi_first,           \* resets when the last get_instance() of the thread began
    gi_last,            \* resets when it returned; NoCall before any return
    \* one call of find_item (tools/_helpers.py) or _find_item
    \* (tools/timeline_item.py)
    fi_helper,          \* which of the two helpers runs
    fi_name,            \* argument `name`
    fi_type,            \* argument `track_type`
    fi_index,           \* argument `track_index`
    fi_world,           \* what the application has open
    fi_items,           \* what GetItemListInTrack() returns, in its order
    fi_pc,              \* the statement the helper is at
    fi_i,               \* position of the for loop in the list
    fi_ext,             \* calls made so far to the connection cache and the application
    fi_skipped,         \* positions the loop has skipped
    fi_out,             \* how the helper ended
    \* one call of a tool
    tl_name,            \* the tool
    tl_ok,              \* its arguments pass its validation
    tl_args,            \* its arguments, where a property reads them
    tl_world,           \* what the application has open
    tl_ans,             \* what each external call site of the tool is answered
    tl_out              \* how the tool ended

vars == << instance, cls_lock, created, resolve, script_module,
           last_health_check, conn_lock, pc, api, now, outcome, ret,
           clock, appUp, live, issued, entryHandle, entryCheck, probes,
           probeRaised, loads, requests, met, wasLive, succeeded,
           lastOutcome, stampFor, obtainedAt, cache_history, history,
           resets, gi_first,
           gi_last, fi_helper, fi_name, fi_type, fi_index, fi_world,
           fi_items, fi_pc, fi_i, fi_ext, fi_skipped, fi_out, tl_name,
           tl_ok, tl_args, tl_world, tl_ans, tl_out >>

classVars == << instance, cls_lock, created >>
cacheVars == << resolve, script_module, last_health_check, conn_lock >>
envVars == << clock, appUp, live, issued >>
callVars == << now, outcome, ret, entryHandle, entryCheck, probes,
               probeRaised, loads, requests, met, wasLive >>
histVars == << succeeded, lastOutcome, stampFor, obtainedAt >>
giVars == << cache_history, history, resets, gi_first, gi_last >>
findVars == << fi_helper, fi_name, fi_type, fi_index, fi_world, fi_items,
               fi_pc, fi_i, fi_ext, fi_skipped, fi_out >>
\* The state of the tool layer, which the connection layer never touches.
callVarsOfTool == << tl_name, tl_ok, tl_args, tl_world, tl_ans, tl_out >>
toolLayerVars == << findVars, callVarsOfTool >>
\* The state of the connection layer, which the helpers reach only through
\* the properties of ResolveAPI.
connVars == << classVars, cacheVars, pc, api, callVars, envVars, histVars,
               giVars >>

\* ------------------------------------------------------------------ Init
\* ResolveAPI.__init__: the fields of a freshly constructed object.  Objects
\* not constructed yet are kept in that state.
NewResolve == None
NewLastHealthCheck == InitialHealthCheck

FieldsInit ==
    /\ cls_lock = NoThread
    /\ resolve = [i \in Instances |-> NewResolve]
    /\ script_module = [i \in Instances |-> FALSE]
    /\ last_health_check = [i \in Instances |-> NewLastHealthCheck]
    /\ conn_lock = [i \in Instances |-> NoThread]
    /\ pc = [t \in Threads |-> "idle"]
    /\ now = [t \in Threads |-> 0]
    /\ outcome = [t \in Threads |-> "none"]
    /\ ret = [t \in Threads |-> None]
    /\ clock = 0
    /\ appUp \in BOOLEAN
    /\ live = {}
    /\ issued = 0
    /\ entryHandle = [t \in Threads |-> None]
    /\ entryCheck = [t \in Threads |-> 0]
    /\ probes = [t \in Threads |-> 0]
    /\ probeRaised = [t \in Threads |-> FALSE]
    /\ loads = [t \in Threads |-> 0]
    /\ requests = [t \in Threads |-> 0]
    /\ met = [t \in Threads |-> "nothing"]
    /\ wasLive = [t \in Threads |-> FALSE]
    /\ succeeded = [i \in Instances |-> FALSE]
    /\ lastOutcome = [i \in Instances |-> "none"]
    /\ stampFor = [i \in Instances |-> None]
    /\ obtainedAt = [i \in Instances |-> 0]
    /\ resets = 0
    /\ gi_first = [t \in Threads |-> 0]
    /\ gi_last = [t \in Threads |-> NoCall]

\* An outcome that is not there yet.
NoOutcome == [kind |-> "none", what |-> "", op |-> "", detail |-> "", item |-> 0]

\* No helper call is in progress.
FindIdle ==
    /\ fi_helper = "none"
    /\ fi_name = ""
    /\ fi_type = ""
    /\ fi_index = 0
    /\ fi_world = "unreachable"
    /\ fi_items = << >>
    /\ fi_pc = "idle"
    /\ fi_i = 0
    /\ fi_ext = 0
    /\ fi_skipped = {}
    /\ fi_out = NoOutcome

\* A tool that has not ended yet.
NoResult == [kind |-> "none", what |-> "", op |-> "", ext |-> 0,
             cause |-> "", seen |-> {}, again |-> FALSE]

\* A call whose arguments are summarised by tl_ok.
NoArgs == [kind |-> "none"]

\* No tool call is in progress.
ToolIdle ==
    /\ tl_name = "none"
    /\ tl_ok = TRUE
    /\ tl_args = NoArgs
    /\ tl_world = "unreachable"
    /\ tl_ans = << >>
    /\ tl_out = NoResult

\* No tool and no helper is running.
ToolLayerIdle == FindIdle /\ ToolIdle

\* The process has started: no singleton yet (line 87).
Init ==
    /\ FieldsInit
    /\ instance = None
    /\ created = 0
    /\ api = [t \in Threads |-> None]
    /\ history = FALSE
    /\ cache_history = FALSE
    /\ ToolLayerIdle

\* ------------------------------------------------------ singleton access
\* get_instance(), line 105: the unlocked first check.
GetInstanceCheck(t) ==
    /\ pc[t] = "idle"
    /\ pc' = [pc EXCEPT ![t] = IF instance = None THEN "gi_lock" ELSE "gi_return"]
    /\ gi_first' = IF history THEN [gi_first EXCEPT ![t] = resets] ELSE gi_first
    /\ UNCHANGED << classVars, cacheVars, api, callVars, envVars, histVars,
                    cache_history, history, resets, gi_last >>
    /\ UNCHANGED toolLayerVars

\* get_instance(), line 106: `with cls._lock`.
GetInstanceAcquire(t) ==
    /\ pc[t] = "gi_lock"
    /\ cls_lock = NoThread
    /\ cls_lock' = t
    /\ pc' = [pc EXCEPT ![t] = "gi_create"]
    /\ UNCHANGED << instance, created, cacheVars, api, callVars, envVars,
                    histVars, giVars >>
    /\ UNCHANGED toolLayerVars

\* A second check that is always true: every thread that took the lock
\* constructs an object.
MustCreateAlways(inst) == TRUE

\* get_instance(), line 108: the second check, made with the class lock held.
MustCreate(inst) == inst = None

\* get_instance(), lines 108-109 and the end of the with block: the second
\* check, the construction, the release of the class lock.
GetInstanceCreate(t) ==
    /\ pc[t] = "gi_create"
    /\ IF MustCreate(instance)
       THEN /\ created < MaxInstances
            /\ instance' = created + 1
            /\ created' = created + 1
       ELSE UNCHANGED << instance, created >>
    /\ cls_lock' = NoThread
    /\ pc' = [pc EXCEPT ![t] = "gi_return"]
    /\ UNCHANGED << cacheVars, api, callVars, envVars, histVars, giVars >>
    /\ UNCHANGED toolLayerVars

\* get_instance(), line 110: `return cls._instance`, read again without the
\* lock.
GetInstanceReturn(t) ==
    /\ pc[t] = "gi_return"
    /\ api' = [api EXCEPT ![t] = instance]
    /\ gi_last' = IF history THEN [gi_last EXCEPT ![t] = resets] ELSE gi_last
    /\ pc' = [pc EXCEPT ![t] = "idle"]
    /\ UNCHANGED << classVars, cacheVars, callVars, envVars, histVars,
                    cache_history, history, resets, gi_first >>
    /\ UNCHANGED toolLayerVars

\* reset(): the singleton is dropped under the class lock.  The objects
\* already handed out keep their fields.  (The number of objects the model
\* constructs is capped here.)
reset(t) ==
    /\ pc[t] = "idle"
    /\ cls_lock = NoThread
    /\ instance # None
    /\ created < MaxInstances
    /\ instance' = None
    /\ resets' = IF history THEN resets + 1 ELSE resets
    /\ UNCHANGED << cls_lock, created, cacheVars, pc, api, callVars, envVars,
                    histVars, cache_history, history, gi_first, gi_last >>
    /\ UNCHANGED toolLayerVars

\* ------------------------------------------------- the connection cache
\* A lock that lets every thread in.
CanAcquireAlways(i, t) == TRUE

\* threading.RLock (line 97): free, or already held by the calling thread.
CanAcquire(i, t) == conn_lock[i] = NoThread \/ conn_lock[i] = t

\* The comparison of line 146 with the probe never skipped, never issued,
\* and skipped for a window one second too short.
WithinTtlNever(n, last) == FALSE
WithinTtlAlways(n, last) == TRUE
WithinTtlShort(n, last) == (n - last) < HEALTH_CHECK_TTL - 1

\* Line 146: the last health check is recent enough.
WithinTtl(n, last) == (n - last) < HEALTH_CHECK_TTL

\* The external GetVersion() of line 150 raises on a handle whose
\* application is gone.
ProbeRaises(h) == h \notin live

\* A good probe that leaves the time of the last check as it was.
AfterProbeKeep(n, last) == last

\* Line 151: what a good probe stores in self._last_health_check.
AfterProbe(n, last) == n

\* An except branch that keeps the stale handle.
AfterProbeFailureKeep(h) == h

\* Line 155: what the except branch stores in self._resolve.
AfterProbeFailure(h) == None

\* A connection that leaves the time of the last check as it was.
AfterConnectKeep(last) == last

\* Line 158: what is stored in self._last_health_check after a connection.
AfterConnect(last) == clock

\* An import whose ImportError is not converted.
LoadOutcomeRaw(imported) == IF imported THEN "loaded" ELSE "Error"

\* _load_resolve_script, lines 61-70: the module is returned, an
\* ImportError becomes ResolveNotRunning.
LoadOutcome(imported) == IF imported THEN "loaded" ELSE "NotRunning"

\* A _connect without the None check.
RaisesNotRunningNever(v) == FALSE

\* _connect, lines 127-128: no object from scriptapp() is ResolveNotRunning.
RaisesNotRunning(v) == v = None

\* _ensure_connected, lines 141-142: `with self._conn_lock`, then
\* `now = time.monotonic()`.
Enter(t) ==
    /\ pc[t] = "idle"
    /\ api[t] # None
    /\ CanAcquire(api[t], t)
    /\ conn_lock' = [conn_lock EXCEPT ![api[t]] = t]
    /\ now' = [now EXCEPT ![t] = clock]
    /\ entryHandle' = [entryHandle EXCEPT ![t] = resolve[api[t]]]
    /\ entryCheck' = [entryCheck EXCEPT ![t] = last_health_check[api[t]]]
    /\ wasLive' = [wasLive EXCEPT ![t] = resolve[api[t]] \in live]
    /\ pc' = [pc EXCEPT ![t] = "ec_check"]
    /\ UNCHANGED << classVars, resolve, script_module, last_health_check, api,
                    outcome, ret, probes, probeRaised, loads, requests, met,
                    envVars, histVars, giVars >>
    /\ UNCHANGED toolLayerVars

\* Lines 144-147: the cached handle is returned while the last check is
\* recent; otherwise it is probed; without a handle the call connects.
Check(t) ==
    /\ pc[t] = "ec_check"
    /\ LET i == api[t] IN
       IF resolve[i] # None
       THEN IF WithinTtl(now[t], last_health_check[i])
            THEN /\ ret' = [ret EXCEPT ![t] = resolve[i]]
                 /\ outcome' = [outcome EXCEPT ![t] = "handle"]
                 /\ pc' = [pc EXCEPT ![t] = "ec_exit"]
            ELSE /\ pc' = [pc EXCEPT ![t] = "ec_probe"]
                 /\ UNCHANGED << ret, outcome >>
       ELSE /\ pc' = [pc EXCEPT ![t] = "ec_connect"]
            /\ UNCHANGED << ret, outcome >>
    /\ UNCHANGED << classVars, cacheVars, api, now, entryHandle, entryCheck,
                    probes, probeRaised, loads, requests, met, wasLive,
                    envVars, histVars, giVars >>
    /\ UNCHANGED toolLayerVars

\* Lines 148-155: GetVersion() on the cached handle.  A good probe stores
\* `now` and returns the handle; any exception clears the handle and falls
\* through to the connection.
Probe(t) ==
    /\ pc[t] = "ec_probe"
    /\ LET i == api[t]
           h == resolve[api[t]] IN
       /\ probes' = [probes EXCEPT ![t] = @ + 1]
       /\ IF ProbeRaises(h)
          THEN /\ probeRaised' = [probeRaised EXCEPT ![t] = TRUE]
               /\ resolve' = [resolve EXCEPT ![i] = AfterProbeFailure(h)]
               /\ pc' = [pc EXCEPT ![t] = "ec_connect"]
               /\ UNCHANGED << last_health_check, ret, outcome, stampFor, wasLive >>
          ELSE /\ last_health_check' =
                     [last_health_check EXCEPT ![i] = AfterProbe(now[t], @)]
               /\ stampFor' = [stampFor EXCEPT ![i] = h]
               /\ wasLive' = [wasLive EXCEPT ![t] = TRUE]
               /\ ret' = [ret EXCEPT ![t] = resolve[i]]
               /\ outcome' = [outcome EXCEPT ![t] = "handle"]
               /\ pc' = [pc EXCEPT ![t] = "ec_exit"]
               /\ UNCHANGED << resolve, probeRaised >>
    /\ UNCHANGED << classVars, script_module, conn_lock, api, now, entryHandle,
                    entryCheck, loads, requests, met, envVars, succeeded,
                    lastOutcome, obtainedAt, giVars >>
    /\ UNCHANGED toolLayerVars

\* _connect, lines 123-124, with _load_resolve_script (lines 47-70): the
\* bridging library is imported once per object.
LoadScript(t) ==
    /\ pc[t] = "ec_connect"
    /\ LET i == api[t] IN
       IF script_module[i]
       THEN /\ pc' = [pc EXCEPT ![t] = "ec_request"]
            /\ UNCHANGED << script_module, loads, outcome, met >>
       ELSE /\ loads' = [loads EXCEPT ![t] = @ + 1]
            /\ \E imported \in BOOLEAN :
                 IF imported
                 THEN /\ script_module' = [script_module EXCEPT ![i] = TRUE]
                      /\ pc' = [pc EXCEPT ![t] = "ec_request"]
                      /\ UNCHANGED << outcome, met >>
                 ELSE /\ met' = [met EXCEPT ![t] = "import failed"]
                      /\ outcome' = [outcome EXCEPT ![t] = LoadOutcome(imported)]
                      /\ pc' = [pc EXCEPT ![t] = "ec_exit"]
                      /\ UNCHANGED script_module
    /\ UNCHANGED << classVars, resolve, last_health_check, conn_lock, api, now,
                    ret, entryHandle, entryCheck, probes, probeRaised, requests,
                    wasLive, envVars, histVars, giVars >>
    /\ UNCHANGED toolLayerVars

\* The answers the bridge can give to scriptapp("Resolve"): a new root
\* object while the application runs, no object, or an exception.
Answers == IF appUp /\ issued < MaxHandles
           THEN {"object", "none", "raise"}
           ELSE {"none", "raise"}

\* _connect, lines 126-129, and the assignment of line 157.
Request(t) ==
    /\ pc[t] = "ec_request"
    /\ requests' = [requests EXCEPT ![t] = @ + 1]
    /\ \E answer \in Answers :
         LET i == api[t]
             v == IF answer = "object" THEN issued + 1 ELSE None IN
         /\ met' = [met EXCEPT ![t] = answer]
         /\ issued' = IF answer = "object" THEN issued + 1 ELSE issued
         /\ live' = IF answer = "object" THEN live \cup {issued + 1} ELSE live
         /\ wasLive' = [wasLive EXCEPT ![t] = answer = "object"]
         /\ IF answer = "raise"
            THEN /\ outcome' = [outcome EXCEPT ![t] = "Error"]
                 /\ pc' = [pc EXCEPT ![t] = "ec_exit"]
                 /\ UNCHANGED << resolve, obtainedAt >>
            ELSE IF RaisesNotRunning(v)
            THEN /\ outcome' = [outcome EXCEPT ![t] = "NotRunning"]
                 /\ pc' = [pc EXCEPT ![t] = "ec_exit"]
                 /\ UNCHANGED << resolve, obtainedAt >>
            ELSE /\ resolve' = [resolve EXCEPT ![i] = v]
                 /\ obtainedAt' = [obtainedAt EXCEPT ![i] = clock]
                 /\ pc' = [pc EXCEPT ![t] = "ec_stamp"]
                 /\ UNCHANGED outcome
    /\ UNCHANGED << classVars, script_module, last_health_check, conn_lock, api,
                    now, ret, entryHandle, entryCheck, probes, probeRaised,
                    loads, clock, appUp, succeeded, lastOutcome, stampFor,
                    giVars >>
    /\ UNCHANGED toolLayerVars

\* Lines 158-159: the time of the connection is stored, the handle returned.
Stamp(t) ==
    /\ pc[t] = "ec_stamp"
    /\ LET i == api[t] IN
       /\ last_health_check' =
             [last_health_check EXCEPT ![i] = AfterConnect(@)]
       /\ stampFor' = [stampFor EXCEPT ![i] = resolve[i]]
       /\ ret' = [ret EXCEPT ![t] = resolve[i]]
    /\ outcome' = [outcome EXCEPT ![t] = "handle"]
    /\ pc' = [pc EXCEPT ![t] = "ec_exit"]
    /\ UNCHANGED << classVars, resolve, script_module, conn_lock, api, now,
                    entryHandle, entryCheck, probes, probeRaised, loads,
                    requests, met, wasLive, envVars, succeeded, lastOutcome,
                    obtainedAt, giVars >>
    /\ UNCHANGED toolLayerVars

\* A with block that keeps the lock when it is left.
AfterExitKeep(holder) == holder

\* The end of the with block of line 141: the lock is released.
AfterExit(holder) == NoThread

\* The end of the with block of line 141, on a return and on an exception:
\* the lock is released and the caller has the result.  With a handle the
\* caller (a property of lines 164-201 and the tool that read it) goes on
\* to its own external calls; an exception ends the tool call.
Exit(t) ==
    /\ pc[t] = "ec_exit"
    /\ conn_lock' = [conn_lock EXCEPT ![api[t]] = AfterExit(@)]
    /\ succeeded' = IF cache_history
                    THEN [succeeded EXCEPT
                            ![api[t]] = @ \/ outcome[t] = "handle"]
                    ELSE succeeded
    /\ lastOutcome' = IF cache_history
                      THEN [lastOutcome EXCEPT ![api[t]] = outcome[t]]
                      ELSE lastOutcome
    /\ pc' = [pc EXCEPT ![t] = IF outcome[t] = "handle" THEN "ac_call" ELSE "idle"]
    /\ now' = [now EXCEPT ![t] = 0]
    /\ outcome' = [outcome EXCEPT ![t] = "none"]
    /\ ret' = [ret EXCEPT ![t] = IF outcome[t] = "handle" THEN @ ELSE None]
    /\ entryHandle' = [entryHandle EXCEPT ![t] = None]
    /\ entryCheck' = [entryCheck EXCEPT ![t] = 0]
    /\ probes' = [probes EXCEPT ![t] = 0]
    /\ probeRaised' = [probeRaised EXCEPT ![t] = FALSE]
    /\ loads' = [loads EXCEPT ![t] = 0]
    /\ requests' = [requests EXCEPT ![t] = 0]
    /\ met' = [met EXCEPT ![t] = "nothing"]
    /\ wasLive' = [wasLive EXCEPT ![t] = FALSE]
    /\ UNCHANGED << classVars, resolve, script_module, last_health_check, api,
                    envVars, stampFor, obtainedAt, giVars >>
    /\ UNCHANGED toolLayerVars

\* The external calls made with the handle after _ensure_connected has
\* returned it: the further call of the property (GetProjectManager() of
\* line 171 and those after it) and the calls of the tool itself, such as
\* StartRendering() of render_start.  They may take any time and end in any
\* way; the tool call is over after them.
ExternalCall(t) ==
    /\ pc[t] = "ac_call"
    /\ pc' = [pc EXCEPT ![t] = "idle"]
    /\ ret' = [ret EXCEPT ![t] = None]
    /\ UNCHANGED << classVars, cacheVars, api, now, outcome, entryHandle,
                    entryCheck, probes, probeRaised, loads, requests, met,
                    wasLive, envVars, histVars, giVars >>
    /\ UNCHANGED toolLayerVars

\* ------------------------------------------------------- the environment
\* time.monotonic() never goes back.
Elapse(d) ==
    /\ clock + d <= MaxClock
    /\ clock' = clock + d
    /\ UNCHANGED << classVars, cacheVars, pc, api, callVars, appUp, live,
                    issued, histVars, giVars >>
    /\ UNCHANGED toolLayerVars

\* A moment passes.
Tick == Elapse(1)

\* A whole freshness window passes.
Lapse == Elapse(HEALTH_CHECK_TTL)

\* The user starts the application.
AppStart ==
    /\ ~appUp
    /\ appUp' = TRUE
    /\ UNCHANGED << classVars, cacheVars, pc, api, callVars, clock, live,
                    issued, histVars, giVars >>
    /\ UNCHANGED toolLayerVars

\* The application exits: every handle obtained from it is stale.
AppExit ==
    /\ appUp
    /\ appUp' = FALSE
    /\ live' = {}
    /\ UNCHANGED << classVars, cacheVars, pc, api, callVars, clock, issued,
                    histVars, giVars >>
    /\ UNCHANGED toolLayerVars

\* ------------------------------------------- the properties of ResolveAPI
\* What the application has open, as far as the properties of lines 164-201
\* can tell: get_live_handle() fails; it gives a handle but
\* GetProjectManager() gives None; no project is open; a project is open
\* without a current timeline; a project and a timeline are open.
Worlds == {"unreachable", "no manager", "no project", "no timeline", "open"}

\* The properties return "object" or "None", or raise "NotRunning".
\* Line 166: the handle of _ensure_connected(), whose ResolveNotRunning
\* propagates.
api_resolve(w) == IF w = "unreachable" THEN "NotRunning" ELSE "object"

\* Lines 171-174: no project manager is ResolveNotRunning.
api_project_manager(w) ==
    IF api_resolve(w) = "NotRunning" THEN "NotRunning"
    ELSE IF w = "no manager" THEN "NotRunning"
    ELSE "object"

\* Line 179: GetCurrentProject() is returned as it is, None included.
api_project(w) ==
    IF api_project_manager(w) = "NotRunning" THEN "NotRunning"
    ELSE IF w = "no project" THEN "None"
    ELSE "object"

\* Lines 184-187: None without a project.
api_media_pool(w) ==
    IF api_project(w) = "object" THEN "object" ELSE api_project(w)

\* Line 192.
api_media_storage(w) == api_resolve(w)

\* Lines 197-200: None without a project, and GetCurrentTimeline() as it is.
api_timeline(w) ==
    IF api_project(w) # "object" THEN api_project(w)
    ELSE IF w = "no timeline" THEN "None"
    ELSE "object"

\* ------------------------------------------------ find_item / _find_item
Helpers == {"find_item", "_find_item"}
Names == {"a", "b"}
\* An item is given by what its GetName() does: it returns a name, raises
\* AttributeError (a stale reference), or raises another exception.
ItemKinds == Names \cup {"AttributeError", "Error"}
VALID_TRACK_TYPES == {"video", "audio", "subtitle"}
TrackTypes == VALID_TRACK_TYPES \cup {"title"}
TrackIndexes == {-1, 0, 1}
ItemLists == UNION {[1..n -> ItemKinds] : n \in 0..MaxItems}

\* The inputs of one helper call.
FindInputs ==
    /\ fi_helper \in Helpers
    /\ fi_name \in Names
    /\ fi_type \in TrackTypes
    /\ fi_index \in TrackIndexes
    /\ fi_world \in Worlds
    /\ fi_items \in ItemLists
    /\ fi_pc = "fi_validate"
    /\ fi_i = 0
    /\ fi_ext = 0
    /\ fi_skipped = {}
    /\ fi_out = NoOutcome

Raised(e, o, d) == [kind |-> "raise", what |-> e, op |-> o, detail |-> d, item |-> 0]
Found(k) == [kind |-> "return", what |-> "item", op |-> "", detail |-> "", item |-> k]

\* A helper that accepts every track.
ValidateTrackNone(type, index) == "ok"

\* _helpers.py lines 76-88, timeline_item.py lines 45-53: the constraint the
\* arguments violate, track_type first.
ValidateTrack(type, index) ==
    IF type \notin VALID_TRACK_TYPES THEN "track_type"
    ELSE IF index < 1 THEN "track_index"
    ELSE "ok"

\* The two checks at the head of the helper.
FindValidate ==
    /\ fi_pc = "fi_validate"
    /\ LET v == ValidateTrack(fi_type, fi_index) IN
       IF v = "ok"
       THEN /\ fi_pc' = "fi_timeline"
            /\ UNCHANGED fi_out
       ELSE /\ fi_pc' = "fi_done"
            /\ fi_out' = Raised("ResolveOperationFailed", fi_helper, v)
    /\ UNCHANGED << fi_helper, fi_name, fi_type, fi_index, fi_world, fi_items,
                    fi_i, fi_ext, fi_skipped, connVars >>
    /\ UNCHANGED callVarsOfTool

\* _helpers.py line 90 with require_timeline (lines 26-33), timeline_item.py
\* lines 55-61: the current timeline, through the connection cache.
FindTimeline ==
    /\ fi_pc = "fi_timeline"
    /\ fi_ext' = fi_ext + 1
    /\ LET tl == api_timeline(fi_world) IN
       IF tl = "NotRunning"
       THEN /\ fi_pc' = "fi_done"
            /\ fi_out' = Raised("ResolveNotRunning", "", "")
       ELSE IF tl = "None"
       THEN /\ fi_pc' = "fi_done"
            /\ fi_out' = Raised("ResolveOperationFailed",
                                IF fi_helper = "find_item" THEN "require_timeline"
                                ELSE fi_helper,
                                "no timeline")
       ELSE /\ fi_pc' = "fi_list"
            /\ UNCHANGED fi_out
    /\ UNCHANGED << fi_helper, fi_name, fi_type, fi_index, fi_world, fi_items,
                    fi_i, fi_skipped, connVars >>
    /\ UNCHANGED callVarsOfTool

\* _helpers.py lines 93-99, timeline_item.py lines 64-70:
\* GetItemListInTrack(), and the failure on an empty list.
FindList ==
    /\ fi_pc = "fi_list"
    /\ fi_ext' = fi_ext + 1
    /\ IF Len(fi_items) = 0
       THEN /\ fi_pc' = "fi_done"
            /\ fi_out' = Raised("ResolveOperationFailed", fi_helper, "no items")
            /\ UNCHANGED fi_i
       ELSE /\ fi_pc' = "fi_scan"
            /\ fi_i' = 1
            /\ UNCHANGED fi_out
    /\ UNCHANGED << fi_helper, fi_name, fi_type, fi_index, fi_world, fi_items,
                    fi_skipped, connVars >>
    /\ UNCHANGED callVarsOfTool

\* A loop that skips no item.
SkipsNone(kind) == FALSE

\* _helpers.py line 106, timeline_item.py line 77: `except AttributeError:
\* continue`.
Skips(kind) == kind = "AttributeError"

\* A comparison that takes every name.
MatchesAny(itemName, name) == TRUE

\* _helpers.py line 104, timeline_item.py line 75: `item.GetName() == name`.
Matches(itemName, name) == itemName = name

\* One turn of the for loop (_helpers.py lines 102-108, timeline_item.py
\* lines 73-79): GetName() of the item, compared with the name.
FindScan ==
    /\ fi_pc = "fi_scan"
    /\ fi_i <= Len(fi_items)
    /\ fi_ext' = fi_ext + 1
    /\ LET kind == fi_items[fi_i] IN
       IF kind \in {"AttributeError", "Error"}
       THEN IF Skips(kind)
            THEN /\ fi_i' = fi_i + 1
                 /\ fi_skipped' = fi_skipped \cup {fi_i}
                 /\ UNCHANGED << fi_pc, fi_out >>
            ELSE /\ fi_pc' = "fi_done"
                 /\ fi_out' = Raised(kind, "", "")
                 /\ UNCHANGED << fi_i, fi_skipped >>
       ELSE IF Matches(kind, fi_name)
            THEN /\ fi_pc' = "fi_done"
                 /\ fi_out' = Found(fi_i)
                 /\ UNCHANGED << fi_i, fi_skipped >>
            ELSE /\ fi_i' = fi_i + 1
                 /\ UNCHANGED << fi_pc, fi_out, fi_skipped >>
    /\ UNCHANGED << fi_helper, fi_name, fi_type, fi_index, fi_world, fi_items,
                    connVars >>
    /\ UNCHANGED callVarsOfTool

\* _helpers.py lines 110-113, timeline_item.py lines 81-84: the loop ended
\* without a match.
FindNotFound ==
    /\ fi_pc = "fi_scan"
    /\ fi_i > Len(fi_items)
    /\ fi_pc' = "fi_done"
    /\ fi_out' = Raised("ResolveOperationFailed", fi_helper, "not found")
    /\ UNCHANGED << fi_helper, fi_name, fi_type, fi_index, fi_world, fi_items,
                    fi_i, fi_ext, fi_skipped, connVars >>
    /\ UNCHANGED callVarsOfTool

\* ------------------------------------------------------- specifications
\* The whole class: the singleton accessors and the cache of every object,
\* with time advancing one freshness window at a time.
Next ==
    \/ \E t \in Callers : GetInstanceCheck(t)
    \/ \E t \in Callers : GetInstanceAcquire(t)
    \/ \E t \in Callers : GetInstanceCreate(t)
    \/ \E t \in Callers : GetInstanceReturn(t)
    \/ \E t \in Callers : reset(t)
    \/ \E t \in Callers : Enter(t)
    \/ \E t \in Callers : Check(t)
    \/ \E t \in Callers : Probe(t)
    \/ \E t \in Callers : LoadScript(t)
    \/ \E t \in Callers : Request(t)
    \/ \E t \in Callers : Stamp(t)
    \/ \E t \in Callers : Exit(t)
    \/ \E t \in Callers : ExternalCall(t)
    \/ Lapse
    \/ AppStart
    \/ AppExit

Spec == Init /\ [][Next]_vars

\* The cache of one object: the singleton has been constructed and every
\* thread has fetched it with get_instance().
CacheInit ==
    /\ FieldsInit
    /\ instance = 1
    /\ created = 1
    /\ api = [t \in Threads |-> 1]
    /\ history = FALSE
    /\ cache_history = TRUE
    /\ ToolLayerIdle

CacheNext ==
    \/ \E t \in Threads : Enter(t)
    \/ \E t \in Threads : Check(t)
    \/ \E t \in Threads : Probe(t)
    \/ \E t \in Threads : LoadScript(t)
    \/ \E t \in Threads : Request(t)
    \/ \E t \in Threads : Stamp(t)
    \/ \E t \in Threads : Exit(t)
    \/ \E t \in Threads : ExternalCall(t)
    \/ Tick
    \/ AppStart
    \/ AppExit

CacheSpec == CacheInit /\ [][CacheNext]_vars

\* The singleton alone: every thread calls get_instance() and reset() in any
\* interleaving, and the history of the calls is recorded.
SingletonInit ==
    /\ FieldsInit
    /\ instance = None
    /\ created = 0
    /\ api = [t \in Threads |-> None]
    /\ history = TRUE
    /\ cache_history = FALSE
    /\ ToolLayerIdle

SingletonNext ==
    \/ \E t \in Threads : GetInstanceCheck(t)
    \/ \E t \in Threads : GetInstanceAcquire(t)
    \/ \E t \in Threads : GetInstanceCreate(t)
    \/ \E t \in Threads : GetInstanceReturn(t)
    \/ \E t \in Threads : reset(t)

SingletonSpec == SingletonInit /\ [][SingletonNext]_vars

\* The connection layer at rest, for the specifications of the tool layer.
ConnIdle ==
    /\ FieldsInit
    /\ appUp = FALSE
    /\ instance = None
    /\ created = 0
    /\ api = [t \in Threads |-> None]
    /\ history = FALSE
    /\ cache_history = FALSE

\* One call of find_item or _find_item on any arguments, any state of the
\* application and any list of items.
FindInit == ConnIdle /\ FindInputs /\ ToolIdle

FindNext ==
    \/ FindValidate
    \/ FindTimeline
    \/ FindList
    \/ FindScan
    \/ FindNotFound

FindSpec == FindInit /\ [][FindNext]_vars

(***************************************************************************)
(* The tool layer.  A tool is a function of its arguments, of what the     *)
(* application has open and of what the application answers at each of the *)
(* tool's external call sites.  Each tool below is the body of its try     *)
(* block followed by its except clauses, in the order of the source.       *)
(***************************************************************************)

\* What an external call site can be answered: a truthy value, a falsy value
\* (None, False, an empty list), or an exception of one of three kinds.
CallAnswers == {"truthy", "falsy", "AttributeError", "TypeError", "Error"}

AnswerLists == [1..MaxCalls -> CallAnswers]

\* The exceptions of the model, and Python's `except cls` test on them.
ResolveErrors == {"ResolveNotRunning", "ResolveOperationFailed"}

IsA(exc, cls) ==
    CASE cls = "Exception" -> TRUE
      [] cls = "ResolveErrors" -> exc \in ResolveErrors
      [] OTHER -> exc = cls

\* The tool returns a value after n external calls.
Ret(v, n, s, g) ==
    [kind |-> "return", what |-> v, op |-> "", ext |-> n, cause |-> "",
     seen |-> s, again |-> g]

\* The code raises exception e (for operation o, because of c) after n
\* external calls.
Rse(e, o, c, n, s, g) ==
    [kind |-> "raise", what |-> e, op |-> o, ext |-> n, cause |-> c,
     seen |-> s, again |-> g]

\* External call number n is answered by exception e.
Thrown(e, n, s, g) == Rse(e, "", "api", n, s \cup {e}, g)

IsExc(a) == a \in {"AttributeError", "TypeError", "Error"}

\* What one except clause does with the exception it caught.
Apply(act, o, name) ==
    CASE act = "reraise" -> o
      [] act = "NotRunning" ->
            [o EXCEPT !.what = "ResolveNotRunning", !.op = ""]
      [] act = "OperationFailed" ->
            [o EXCEPT !.what = "ResolveOperationFailed", !.op = name]
      [] act = "False" ->
            [o EXCEPT !.kind = "return", !.what = "False", !.op = ""]
      [] OTHER -> o

\* The first except clause that matches handles the exception; an exception
\* no clause matches leaves the tool as it is.
RECURSIVE CatchFrom(_, _, _, _)
CatchFrom(i, handlers, o, name) ==
    IF i > Len(handlers) THEN o
    ELSE IF IsA(o.what, handlers[i][1]) THEN Apply(handlers[i][2], o, name)
    ELSE CatchFrom(i + 1, handlers, o, name)

Catch(handlers, o, name) ==
    IF o.kind = "raise" THEN CatchFrom(1, handlers, o, name) ELSE o

\* The except clauses most tools end with.
NoAttributeHandler ==
    << << "ResolveErrors", "reraise" >>,
       << "Exception", "OperationFailed" >> >>

NoExceptionHandler ==
    << << "ResolveErrors", "reraise" >>,
       << "AttributeError", "NotRunning" >> >>

StdHandlers ==
    << << "ResolveErrors", "reraise" >>,
       << "AttributeError", "NotRunning" >>,
       << "Exception", "OperationFailed" >> >>

\* media_pool_get_root_folder and the other media pool tools: the same
\* clauses with the AttributeError clause first.
PoolHandlers ==
    << << "AttributeError", "NotRunning" >>,
       << "ResolveErrors", "reraise" >>,
       << "Exception", "OperationFailed" >> >>

\* The media storage tools re-raise ResolveNotRunning only.
StorageHandlers ==
    << << "AttributeError", "NotRunning" >>,
       << "ResolveNotRunning", "reraise" >>,
       << "Exception", "OperationFailed" >> >>

\* color_set_node_enabled reports a missing attribute as the value False.
NodeEnabledHandlers ==
    << << "ResolveErrors", "reraise" >>,
       << "AttributeError", "False" >>,
       << "Exception", "OperationFailed" >> >>

\* gallery_create_album reports a missing attribute as an unsupported
\* operation.
CreateAlbumHandlers ==
    << << "AttributeError", "OperationFailed" >>,
       << "ResolveErrors", "reraise" >>,
       << "Exception", "OperationFailed" >> >>

\* An accessor of the connection object as a tool's first step: it raises
\* ResolveNotRunning itself, or returns None and the code raises exception e
\* for operation o, or returns the object.
Require(access, w, e, o) ==
    CASE access = "NotRunning" ->
            Rse("ResolveNotRunning", "",
                IF w = "unreachable" THEN "unreachable" ELSE "no manager",
                1, {}, FALSE)
      [] access = "None" -> Rse(e, o, "nothing open", 1, {}, FALSE)
      [] OTHER -> Ret("object", 1, {}, FALSE)

require_timeline(w) ==
    Require(api_timeline(w), w, "ResolveOperationFailed", "require_timeline")

require_media_pool(w) ==
    Require(api_media_pool(w), w, "ResolveOperationFailed", "require_media_pool")

\* The media pool module's own helper.
_require_pool(w) ==
    Require(api_media_pool(w), w, "ResolveNotRunning", "")

\* media_pool_get_root_folder(): a[1] answers GetRootFolder(), a[2] GetName().
media_pool_get_root_folder(ok, w, a) ==
    LET name == "media_pool_get_root_folder"
        pool == _require_pool(w)
        body ==
            IF pool.kind = "raise" THEN pool
            ELSE IF IsExc(a[1]) THEN Thrown(a[1], 2, {}, FALSE)
            ELSE IF a[1] = "falsy"
            THEN Rse("ResolveOperationFailed", name, "refused", 2, {}, FALSE)
            ELSE IF IsExc(a[2]) THEN Thrown(a[2], 3, {}, FALSE)
            ELSE Ret("name", 3, {}, FALSE)
    IN  Catch(PoolHandlers, body, name)

\* storage_get_volumes(): a[1] answers GetMountedVolumeList().
storage_get_volumes(ok, w, a) ==
    LET name == "storage_get_volumes"
        storage == Require(api_media_storage(w), w, "ResolveNotRunning", "")
        body ==
            IF storage.kind = "raise" THEN storage
            ELSE IF IsExc(a[1]) THEN Thrown(a[1], 2, {}, FALSE)
            ELSE IF a[1] = "falsy" THEN Ret("[]", 2, {}, FALSE)
            ELSE Ret("volumes", 2, {}, FALSE)
    IN  Catch(StorageHandlers, body, name)

\* timeline_get_current ends with two except clauses only: it re-raises
\* neither of the two errors of the package.
GetCurrentHandlers ==
    << << "AttributeError", "NotRunning" >>,
       << "Exception", "OperationFailed" >> >>

\* timeline_get_current(): a[1] answers GetName(), a[2] GetStartFrame() and
\* GetEndFrame(), a[3] GetTrackCount() and GetStartTimecode(); whatever value
\* they return goes into the dict.
timeline_get_current(ok, w, a) ==
    LET name == "timeline_get_current"
        tl == api_timeline(w)
        body ==
            IF tl = "NotRunning"
            THEN Require(tl, w, "ResolveOperationFailed", name)
            ELSE IF tl = "None" THEN Ret("None", 1, {}, FALSE)
            ELSE IF IsExc(a[1]) THEN Thrown(a[1], 2, {}, FALSE)
            ELSE IF IsExc(a[2]) THEN Thrown(a[2], 3, {}, FALSE)
            ELSE IF IsExc(a[3]) THEN Thrown(a[3], 5, {}, FALSE)
            ELSE Ret("dict", 7, {}, FALSE)
    IN  Catch(GetCurrentHandlers, body, name)

\* timeline_set_current(name): a[1] answers GetTimelineCount() (truthy: one
\* timeline), a[2] GetTimelineByIndex(1) and GetName() (truthy: the name
\* matches), a[3] SetCurrentTimeline().
timeline_set_current(ok, w, a) ==
    LET name == "timeline_set_current"
        project == Require(api_project(w), w, "ResolveOperationFailed", name)
        body ==
            IF project.kind = "raise" THEN project
            ELSE IF IsExc(a[1]) THEN Thrown(a[1], 2, {}, FALSE)
            ELSE IF a[1] = "falsy"
            THEN Rse("ResolveOperationFailed", name, "not found", 2, {}, FALSE)
            ELSE IF IsExc(a[2]) THEN Thrown(a[2], 3, {}, FALSE)
            ELSE IF a[2] = "falsy"
            THEN Rse("ResolveOperationFailed", name, "not found", 3, {}, FALSE)
            ELSE IF IsExc(a[3]) THEN Thrown(a[3], 4, {}, FALSE)
            ELSE IF a[3] = "falsy"
            THEN Rse("ResolveOperationFailed", name, "refused", 4, {}, FALSE)
            ELSE Ret("True", 4, {}, FALSE)
    IN  Catch(StdHandlers, body, name)

\* playback_open_page(page): ok says the page is one of the valid pages;
\* a[1] answers OpenPage().
playback_open_page(ok, w, a) ==
    LET name == "playback_open_page"
        resolve_ == Require(api_resolve(w), w, "ResolveNotRunning", "")
        body ==
            IF resolve_.kind = "raise" THEN resolve_
            ELSE IF IsExc(a[1]) THEN Thrown(a[1], 2, {}, FALSE)
            ELSE IF a[1] = "falsy"
            THEN Rse("ResolveOperationFailed", name, "refused", 2, {}, FALSE)
            ELSE Ret("True", 2, {}, FALSE)
    IN  IF ~ok
        THEN Rse("ResolveOperationFailed", name, "invalid args", 0, {}, FALSE)
        ELSE Catch(StdHandlers, body, name)

\* find_item() / _find_item() as a step of a tool, called with a valid track:
\* the timeline accessor, then GetItemListInTrack() answered by a (truthy: a
\* list whose item has the name asked for), then that item's GetName().
find_item(helper, w, a) ==
    LET timeline ==
            Require(api_timeline(w), w, "ResolveOperationFailed",
                    IF helper = "find_item" THEN "require_timeline" ELSE helper)
    IN  IF timeline.kind = "raise" THEN timeline
        ELSE IF IsExc(a) THEN Thrown(a, 2, {}, FALSE)
        ELSE IF a = "falsy"
        THEN Rse("ResolveOperationFailed", helper, "not found", 2, {}, FALSE)
        ELSE Ret("item", 3, {}, FALSE)

\* color_set_cdl(item_name, cdl): ok says CDLValues accepts cdl; a[1] answers
\* the lookup of the item, a[2] SetCDL().
color_set_cdl(ok, w, a) ==
    LET name == "color_set_cdl"
        item == find_item("find_item", w, a[1])
        body ==
            IF item.kind = "raise" THEN item
            ELSE IF ~ok
            THEN Rse("ResolveOperationFailed", name, "invalid args",
                     item.ext, {}, FALSE)
            ELSE IF IsExc(a[2]) THEN Thrown(a[2], item.ext + 1, {}, FALSE)
            ELSE IF a[2] = "falsy"
            THEN Rse("ResolveOperationFailed", name, "refused",
                     item.ext + 1, {}, FALSE)
            ELSE Ret("True", item.ext + 1, {}, FALSE)
    IN  Catch(StdHandlers, body, name)

\* item_set_transform(item_name, ...): ok says at least one transform
\* parameter is given; a[1] answers the lookup of the item, a[2] SetProperty().
item_set_transform(ok, w, a) ==
    LET name == "item_set_transform"
        item == find_item("_find_item", w, a[1])
        body ==
            IF item.kind = "raise" THEN item
            ELSE IF ~ok
            THEN Rse("ResolveOperationFailed", name, "invalid args",
                     item.ext, {}, FALSE)
            ELSE IF IsExc(a[2]) THEN Thrown(a[2], item.ext + 1, {}, FALSE)
            ELSE IF a[2] = "falsy"
            THEN Rse("ResolveOperationFailed", name, "refused",
                     item.ext + 1, {}, FALSE)
            ELSE Ret("True", item.ext + 1, {}, FALSE)
    IN  Catch(StdHandlers, body, name)

\* color_set_node_enabled(item_name, node_index, enabled): ok says
\* node_index >= 1; a[1] answers the lookup of the item, a[2]
\* SetNodeEnabled().
color_set_node_enabled(ok, w, a) ==
    LET name == "color_set_node_enabled"
        item == find_item("find_item", w, a[1])
        body ==
            IF item.kind = "raise" THEN item
            ELSE IF IsExc(a[2]) THEN Thrown(a[2], item.ext + 1, {}, FALSE)
            ELSE IF a[2] = "falsy" THEN Ret("False", item.ext + 1, {}, FALSE)
            ELSE Ret("True", item.ext + 1, {}, FALSE)
    IN  IF ~ok
        THEN Rse("ResolveOperationFailed", name, "invalid args", 0, {}, FALSE)
        ELSE Catch(NodeEnabledHandlers, body, name)

\* _get_gallery(): the project accessor, then GetGallery() answered by a; an
\* AttributeError of GetGallery() is raised as ResolveNotRunning here.
_get_gallery(w, a) ==
    LET project ==
            Require(api_project(w), w, "ResolveOperationFailed", "_get_gallery")
    IN  IF project.kind = "raise" THEN project
        ELSE IF a = "AttributeError"
        THEN Rse("ResolveNotRunning", "", "api", 2, {a}, FALSE)
        ELSE IF IsExc(a) THEN Thrown(a, 2, {}, FALSE)
        ELSE IF a = "falsy"
        THEN Rse("ResolveOperationFailed", "_get_gallery", "refused", 2, {},
                 FALSE)
        ELSE Ret("gallery", 2, {}, FALSE)

\* gallery_create_album(name): a[1] answers GetGallery(), a[2]
\* CreateGalleryStillAlbum().
gallery_create_album(ok, w, a) ==
    LET name == "gallery_create_album"
        gallery == _get_gallery(w, a[1])
        body ==
            IF gallery.kind = "raise" THEN gallery
            ELSE IF IsExc(a[2]) THEN Thrown(a[2], 3, {}, FALSE)
            ELSE IF a[2] = "falsy"
            THEN Rse("ResolveOperationFailed", name, "refused", 3, {}, FALSE)
            ELSE Ret("True", 3, {}, FALSE)
    IN  Catch(CreateAlbumHandlers, body, name)

\* After which answers of its first attempt a tool calls the same method of
\* the application once more, with another argument list.
RetriesNever(tool, a) == FALSE

RetriesAfter(tool, a) ==
    CASE tool = "fairlight_apply_preset" -> a \in {"TypeError", "falsy"}
      [] tool = "gallery_export_stills" -> a = "TypeError"
      [] OTHER -> FALSE

\* fairlight_apply_preset(preset_name, track_index): a[1] answers
\* ApplyFairlightPreset(preset_name, track_index), a[2] answers
\* ApplyFairlightPreset(preset_name).
fairlight_apply_preset(ok, w, a) ==
    LET name == "fairlight_apply_preset"
        project == Require(api_project(w), w, "ResolveOperationFailed", name)
        s1 == IF IsExc(a[1]) THEN {a[1]} ELSE {}
        body ==
            IF project.kind = "raise" THEN project
            ELSE IF a[1] = "AttributeError"
            THEN Rse("ResolveOperationFailed", name, "api", 2, s1, FALSE)
            ELSE IF a[1] = "truthy" THEN Ret("True", 2, {}, FALSE)
            ELSE IF ~RetriesAfter(name, a[1])
            THEN IF IsExc(a[1]) THEN Thrown(a[1], 2, {}, FALSE)
                 ELSE Rse("ResolveOperationFailed", name, "refused", 2, {},
                          FALSE)
            ELSE IF a[2] = "AttributeError"
            THEN Rse("ResolveOperationFailed", name, "api", 3,
                     s1 \cup {a[2]}, TRUE)
            ELSE IF IsExc(a[2]) THEN Thrown(a[2], 3, s1, TRUE)
            ELSE IF a[2] = "falsy"
            THEN Rse("ResolveOperationFailed", name, "refused", 3, s1, TRUE)
            ELSE Ret("True", 3, s1, TRUE)
    IN  Catch(StdHandlers, body, name)

\* gallery_export_stills(still_indices, export_path) on the current album,
\* with a gallery and a current album that exist: a[1] answers GetStills(),
\* a[2] answers ExportStills(selected, export_path, "", "dpx"), a[3] answers
\* ExportStills(selected, export_path).
gallery_export_stills(ok, w, a) ==
    LET name == "gallery_export_stills"
        album ==
            LET g == _get_gallery(w, "truthy")
            IN  IF g.kind = "raise" THEN g ELSE Ret("album", 3, {}, FALSE)
        s2 == IF IsExc(a[2]) THEN {a[2]} ELSE {}
        body ==
            IF album.kind = "raise" THEN album
            ELSE IF IsExc(a[1]) THEN Thrown(a[1], 4, {}, FALSE)
            ELSE IF a[1] = "falsy"
            THEN Rse("ResolveOperationFailed", name, "not found", 4, {}, FALSE)
            ELSE IF a[2] = "truthy" THEN Ret("True", 5, {}, FALSE)
            ELSE IF a[2] = "falsy"
            THEN Rse("ResolveOperationFailed", name, "refused", 5, {}, FALSE)
            ELSE IF ~RetriesAfter(name, a[2]) THEN Thrown(a[2], 5, {}, FALSE)
            ELSE IF IsExc(a[3]) THEN Thrown(a[3], 6, s2, TRUE)
            ELSE IF a[3] = "falsy"
            THEN Rse("ResolveOperationFailed", name, "refused", 6, s2, TRUE)
            ELSE Ret("True", 6, s2, TRUE)
    IN  Catch(StdHandlers, body, name)

\* The tools of the model.
ToolNames ==
    {"media_pool_get_root_folder", "storage_get_volumes",
     "timeline_get_current", "timeline_set_current", "playback_open_page", "color_set_cdl",
     "item_set_transform", "color_set_node_enabled", "gallery_create_album",
     "fairlight_apply_preset", "gallery_export_stills"}

\* One call of the tool called name, ending as out.
Call(name, out) ==
    /\ tl_name = "none"
    /\ tl_name' = name
    /\ tl_out' = out
    /\ UNCHANGED << tl_ok, tl_args, tl_world, tl_ans, findVars, connVars >>

Call_media_pool_get_root_folder ==
    Call("media_pool_get_root_folder",
         media_pool_get_root_folder(tl_ok, tl_world, tl_ans))

Call_storage_get_volumes ==
    Call("storage_get_volumes", storage_get_volumes(tl_ok, tl_world, tl_ans))

Call_timeline_get_current ==
    Call("timeline_get_current",
         timeline_get_current(tl_ok, tl_world, tl_ans))

Call_timeline_set_current ==
    Call("timeline_set_current",
         timeline_set_current(tl_ok, tl_world, tl_ans))

Call_playback_open_page ==
    Call("playback_open_page", playback_open_page(tl_ok, tl_world, tl_ans))

Call_color_set_cdl ==
    Call("color_set_cdl", color_set_cdl(tl_ok, tl_world, tl_ans))

Call_item_set_transform ==
    Call("item_set_transform", item_set_transform(tl_ok, tl_world, tl_ans))

Call_color_set_node_enabled ==
    Call("color_set_node_enabled",
         color_set_node_enabled(tl_ok, tl_world, tl_ans))

Call_gallery_create_album ==
    Call("gallery_create_album",
         gallery_create_album(tl_ok, tl_world, tl_ans))

Call_fairlight_apply_preset ==
    Call("fairlight_apply_preset",
         fairlight_apply_preset(tl_ok, tl_world, tl_ans))

Call_gallery_export_stills ==
    Call("gallery_export_stills",
         gallery_export_stills(tl_ok, tl_world, tl_ans))

\* One tool call on any arguments, any state of the application and any
\* answers of the application.
ToolInputs ==
    /\ tl_name = "none"
    /\ tl_ok \in BOOLEAN
    /\ tl_args = NoArgs
    /\ tl_world \in Worlds
    /\ tl_ans \in AnswerLists
    /\ tl_out = NoResult

ToolInit == ConnIdle /\ FindIdle /\ ToolInputs

ToolNext ==
    \/ Call_media_pool_get_root_folder
    \/ Call_storage_get_volumes
    \/ Call_timeline_get_current
    \/ Call_timeline_set_current
    \/ Call_playback_open_page
    \/ Call_color_set_cdl
    \/ Call_item_set_transform
    \/ Call_color_set_node_enabled
    \/ Call_gallery_create_album
    \/ Call_fairlight_apply_preset
    \/ Call_gallery_export_stills

ToolSpec == ToolInit /\ [][ToolNext]_vars

(***************************************************************************)
(* Tools called with their actual arguments.  What a tool does with an     *)
(* argument is in its operator; an argument it only hands on to the        *)
(* application appears in no test of the operator.                         *)
(***************************************************************************)

\* Track coordinates: a track type, valid or not, and a track index.
TrackArgs == [kind : {"track"}, type : TrackTypes, index : TrackIndexes]

\* Fusion's own _require_timeline() and _find_item(): the track coordinates
\* go to GetItemListInTrack() as they are; a answers that call (truthy: a
\* list with an item of the name asked for).
fusion_find_item(track_type, track_index, w, a) ==
    LET timeline ==
            Require(api_timeline(w), w, "ResolveOperationFailed",
                    "_require_timeline")
    IN  IF timeline.kind = "raise" THEN timeline
        ELSE IF IsExc(a) THEN Thrown(a, 2, {}, FALSE)
        ELSE IF a = "falsy"
        THEN Rse("ResolveOperationFailed", "_find_item", "not found", 2, {},
                 FALSE)
        ELSE Ret("item", 3, {}, FALSE)

\* fusion_get_comp_count(item_name, track_type, track_index): a[1] answers
\* GetItemListInTrack(), a[2] GetFusionCompCount().
fusion_get_comp_count(args, w, a) ==
    LET name == "fusion_get_comp_count"
        item == fusion_find_item(args.type, args.index, w, a[1])
        body ==
            IF item.kind = "raise" THEN item
            ELSE IF IsExc(a[2]) THEN Thrown(a[2], item.ext + 1, {}, FALSE)
            ELSE Ret("count", item.ext + 1, {}, FALSE)
    IN  Catch(StdHandlers, body, name)

Arg_fusion_get_comp_count ==
    /\ tl_args.kind = "track"
    /\ Call("fusion_get_comp_count",
            fusion_get_comp_count(tl_args, tl_world, tl_ans))

\* The Slope entry of a cdl argument: a list of numbers of some length, or
\* a value that is no list of numbers.
CdlArgs == [kind : {"cdl"}, list : BOOLEAN, len : 0..MaxSlope]

\* CDLValues(slope=...): the field is declared list[float] with no
\* constraint on its length, so a list of numbers of any length is accepted.
CDLValues(args) == args.list

Arg_color_set_cdl ==
    /\ tl_args.kind = "cdl"
    /\ Call("color_set_cdl",
            color_set_cdl(CDLValues(tl_args), tl_world, tl_ans))

\* timeline_get_track_count(track_type): the track type goes to
\* GetTrackCount() as it is; a[1] answers that call.
timeline_get_track_count(args, w, a) ==
    LET name == "timeline_get_track_count"
        tl == Require(api_timeline(w), w, "ResolveOperationFailed", name)
        body ==
            IF tl.kind = "raise" THEN tl
            ELSE IF IsExc(a[1]) THEN Thrown(a[1], 2, {}, FALSE)
            ELSE Ret("count", 2, {}, FALSE)
    IN  Catch(StdHandlers, body, name)

\* timeline_delete_clips(item_names, track_type, track_index): the track
\* coordinates go to GetItemListInTrack() as they are; a[1] answers that call
\* (truthy: a list with an item of a name asked for), a[2] DeleteClips().
timeline_delete_clips(args, w, a) ==
    LET name == "timeline_delete_clips"
        tl == Require(api_timeline(w), w, "ResolveOperationFailed", name)
        body ==
            IF tl.kind = "raise" THEN tl
            ELSE IF IsExc(a[1]) THEN Thrown(a[1], 2, {}, FALSE)
            ELSE IF a[1] = "falsy"
            THEN Rse("ResolveOperationFailed", name, "not found", 2, {}, FALSE)
            ELSE IF IsExc(a[2]) THEN Thrown(a[2], 4, {}, FALSE)
            ELSE IF a[2] = "falsy"
            THEN Rse("ResolveOperationFailed", name, "refused", 4, {}, FALSE)
            ELSE Ret("True", 4, {}, FALSE)
    IN  Catch(StdHandlers, body, name)

Arg_timeline_get_track_count ==
    /\ tl_args.kind = "track"
    /\ Call("timeline_get_track_count",
            timeline_get_track_count(tl_args, tl_world, tl_ans))

Arg_timeline_delete_clips ==
    /\ tl_args.kind = "track"
    /\ Call("timeline_delete_clips",
            timeline_delete_clips(tl_args, tl_world, tl_ans))

\* A new name: empty, whitespace only, or a proper name.
NewNames == {"", " ", "a"}

NameArgs == [kind : {"name"}, name : NewNames]

\* timeline_set_name(name): the name goes to SetName() as it is; a[1]
\* answers that call.
timeline_set_name(args, w, a) ==
    LET name == "timeline_set_name"
        tl == Require(api_timeline(w), w, "ResolveOperationFailed", name)
        body ==
            IF tl.kind = "raise" THEN tl
            ELSE IF IsExc(a[1]) THEN Thrown(a[1], 2, {}, FALSE)
            ELSE IF a[1] = "falsy"
            THEN Rse("ResolveOperationFailed", name, "refused", 2, {}, FALSE)
            ELSE Ret("True", 2, {}, FALSE)
    IN  Catch(StdHandlers, body, name)

\* _find_clip(name) of the media pool item tools: the media pool accessor,
\* GetCurrentFolder(), then GetClipList() answered by a (truthy: a list with
\* a clip of that name), then the clip's GetName().
_find_clip(w, a) ==
    LET pool ==
            Require(api_media_pool(w), w, "ResolveOperationFailed",
                    "_find_clip")
    IN  IF pool.kind = "raise" THEN pool
        ELSE IF IsExc(a) THEN Thrown(a, 3, {}, FALSE)
        ELSE IF a = "falsy"
        THEN Rse("ResolveOperationFailed", "_find_clip", "not found", 3, {},
                 FALSE)
        ELSE Ret("clip", 4, {}, FALSE)

\* clip_set_name(clip_name, new_name): the new name goes to
\* SetClipProperty("Clip Name", new_name) as it is; a[1] answers the lookup
\* of the clip, a[2] SetClipProperty().
clip_set_name(args, w, a) ==
    LET name == "clip_set_name"
        clip == _find_clip(w, a[1])
        body ==
            IF clip.kind = "raise" THEN clip
            ELSE IF IsExc(a[2]) THEN Thrown(a[2], clip.ext + 1, {}, FALSE)
            ELSE IF a[2] = "falsy"
            THEN Rse("ResolveOperationFailed", name, "refused", clip.ext + 1,
                     {}, FALSE)
            ELSE Ret("True", clip.ext + 1, {}, FALSE)
    IN  Catch(StdHandlers, body, name)

Arg_timeline_set_name ==
    /\ tl_args.kind = "name"
    /\ Call("timeline_set_name", timeline_set_name(tl_args, tl_world, tl_ans))

Arg_clip_set_name ==
    /\ tl_args.kind = "name"
    /\ Call("clip_set_name", clip_set_name(tl_args, tl_world, tl_ans))

\* Python's s[start:stop] on a list of n items: an index below zero counts
\* from the end, and both ends are clamped to 0..n.
SliceIndex(i, n) ==
    IF i < 0 THEN (IF i + n < 0 THEN 0 ELSE i + n)
    ELSE IF i > n THEN n ELSE i

Slice(s, start, stop) ==
    LET lo == SliceIndex(start, Len(s))
        hi == SliceIndex(stop, Len(s))
    IN  IF hi > lo THEN [k \in 1..(hi - lo) |-> s[lo + k]] ELSE << >>

\* A page request: the track holds the items 1..n in this order; offset and
\* limit are any integers near that range.
Offsets == (0 - MaxItems)..(MaxItems + 1)

Limits == (0 - MaxItems)..(MaxItems + 1)

PageArgs == [kind : {"page"}, n : 0..MaxItems, offset : Offsets,
             limit : Limits]

\* timeline_get_items_in_track(track_type, track_index, offset, limit): a[1]
\* answers GetItemListInTrack() (truthy: the n items of the track), a[2]
\* the GetName() .. GetDuration() calls on the items of the page.
timeline_get_items_in_track(args, w, a) ==
    LET name == "timeline_get_items_in_track"
        tl == Require(api_timeline(w), w, "ResolveOperationFailed", name)
        all_items == [i \in 1..args.n |-> i]
        page == Slice(all_items, args.offset, args.offset + args.limit)
        body ==
            IF tl.kind = "raise" THEN tl
            ELSE IF IsExc(a[1]) THEN Thrown(a[1], 2, {}, FALSE)
            ELSE IF a[1] = "falsy" \/ args.n = 0
            THEN Ret(<< >>, 2, {}, FALSE)
            ELSE IF page # << >> /\ IsExc(a[2])
            THEN Thrown(a[2], 3, {}, FALSE)
            ELSE Ret(page, 2 + Len(page), {}, FALSE)
    IN  Catch(StdHandlers, body, name)

Arg_timeline_get_items_in_track ==
    /\ tl_args.kind = "page"
    /\ Call("timeline_get_items_in_track",
            timeline_get_items_in_track(tl_args, tl_world, tl_ans))

\* A request for clips by name: the names asked for, in the order of the
\* request, and the names of the clips of the current media pool folder, in
\* the order GetClipList() returns them.  A clip is known by its name.
NameLists(lo) == UNION {[1..n -> Names] : n \in lo..MaxItems}

ClipArgs == [kind : {"clips"}, names : NameLists(1), folder : NameLists(0)]

\* The outcome o of a tool, with the list of clips it handed to the
\* application (none when it made no such call).
Handed(o, clips) ==
    [kind |-> o.kind, what |-> o.what, op |-> o.op, ext |-> o.ext,
     cause |-> o.cause, seen |-> o.seen, again |-> o.again,
     handed |-> clips]

ElementsOf(s) == {s[i] : i \in 1..Len(s)}

\* _find_clips_by_names(folder, clip_names): the clips of the folder whose
\* name is in the set of the names asked for, in the order of the folder.
_find_clips_by_names(folder, clip_names) ==
    LET target_set == ElementsOf(clip_names)
        InTarget(clip) == clip \in target_set
    IN  SelectSeq(folder, InTarget)

\* timeline_append_clips: a lookup of the folder's clips by name, then the
\* names of the request in their order.
ClipsInRequestOrder(folder, clip_names) ==
    LET clip_lookup == ElementsOf(folder)
        InLookup(name) == name \in clip_lookup
    IN  SelectSeq(clip_names, InLookup)

\* media_pool_create_timeline_from_clips(name, clip_names) with a name that
\* is not empty: a[1] answers CreateTimelineFromClips().
media_pool_create_timeline_from_clips(args, w, a) ==
    LET name == "media_pool_create_timeline_from_clips"
        pool == _require_pool(w)
        clip_objs == _find_clips_by_names(args.folder, args.names)
        body ==
            IF pool.kind = "raise" THEN Handed(pool, << >>)
            ELSE IF clip_objs = << >>
            THEN Handed(Rse("ResolveOperationFailed", name, "not found", 4,
                            {}, FALSE), << >>)
            ELSE IF IsExc(a[1])
            THEN Handed(Thrown(a[1], 5, {}, FALSE), clip_objs)
            ELSE IF a[1] = "falsy"
            THEN Handed(Rse("ResolveOperationFailed", name, "refused", 5,
                            {}, FALSE), clip_objs)
            ELSE Handed(Ret("name", 6, {}, FALSE), clip_objs)
    IN  Catch(PoolHandlers, body, name)

\* timeline_append_clips(clip_names): a[1] answers AppendToTimeline().
timeline_append_clips(args, w, a) ==
    LET name == "timeline_append_clips"
        pool ==
            Require(api_media_pool(w), w, "ResolveOperationFailed", name)
        clip_objs == ClipsInRequestOrder(args.folder, args.names)
        body ==
            IF pool.kind = "raise" THEN Handed(pool, << >>)
            ELSE IF args.folder = << >>
            THEN Handed(Rse("ResolveOperationFailed", name, "not found", 3,
                            {}, FALSE), << >>)
            ELSE IF Len(clip_objs) < Len(args.names)
            THEN Handed(Rse("ResolveOperationFailed", name, "not found",
                            3 + Len(args.folder), {}, FALSE), << >>)
            ELSE IF IsExc(a[1])
            THEN Handed(Thrown(a[1], 4 + Len(args.folder), {}, FALSE),
                        clip_objs)
            ELSE IF a[1] = "falsy"
            THEN Handed(Rse("ResolveOperationFailed", name, "refused",
                            4 + Len(args.folder), {}, FALSE), clip_objs)
            ELSE Handed(Ret("True", 4 + Len(args.folder), {}, FALSE),
                        clip_objs)
    IN  Catch(StdHandlers, body, name)

Arg_media_pool_create_timeline_from_clips ==
    /\ tl_args.kind = "clips"
    /\ Call("media_pool_create_timeline_from_clips",
            media_pool_create_timeline_from_clips(tl_args, tl_world, tl_ans))

Arg_timeline_append_clips ==
    /\ tl_args.kind = "clips"
    /\ Call("timeline_append_clips",
            timeline_append_clips(tl_args, tl_world, tl_ans))

\* A request of several steps: count transform parameters to set, or count
\* tracks to add.
StepArgs == [kind : {"steps"}, count : 0..MaxCalls]

\* The outcome o of a tool, with the number of its steps the application has
\* carried out.
Applied(o, n) ==
    [kind |-> o.kind, what |-> o.what, op |-> o.op, ext |-> o.ext,
     cause |-> o.cause, seen |-> o.seen, again |-> o.again,
     applied |-> n]

\* The first of the steps from..to whose call is not answered by a truthy
\* value; 0 when all are.
FirstFailure(a, from, to) ==
    LET failing == {i \in from..to : a[i] # "truthy"}
    IN  IF failing = {} THEN 0
        ELSE CHOOSE i \in failing : \A j \in failing : i <= j

\* How many of count steps have been carried out when the loop ends: all of
\* them, or the ones before the step that failed.  Nothing is undone.
StepsAppliedNoneOnFailure(failed, count) ==
    IF failed = 0 THEN count ELSE 0

StepsApplied(failed, count) ==
    IF failed = 0 THEN count ELSE failed - 1

\* The loop `for ...: ok = call(); if not ok: raise` over the steps
\* from..to, after `before` external calls.
StepLoop(name, a, from, to, before) ==
    LET failed == FirstFailure(a, from, to)
        count == to - from + 1
        done == StepsApplied(IF failed = 0 THEN 0 ELSE failed - from + 1,
                             count)
        ext == before + (IF failed = 0 THEN count ELSE failed - from + 1)
    IN  IF failed = 0 THEN Applied(Ret("True", ext, {}, FALSE), done)
        ELSE IF IsExc(a[failed])
        THEN Applied(Thrown(a[failed], ext, {}, FALSE), done)
        ELSE Applied(Rse("ResolveOperationFailed", name, "refused", ext, {},
                         FALSE), done)

\* timeline_add_track(track_type, count): a[i] answers the i-th AddTrack().
timeline_add_track(args, w, a) ==
    LET name == "timeline_add_track"
        tl == Require(api_timeline(w), w, "ResolveOperationFailed", name)
        body ==
            IF tl.kind = "raise" THEN Applied(tl, 0)
            ELSE StepLoop(name, a, 1, args.count, 1)
    IN  Applied(Catch(StdHandlers, body, name), body.applied)

\* item_set_transform(item_name, ...) with count of its transform parameters
\* given: a[1] answers the lookup of the item, a[1 + i] the SetProperty() of
\* the i-th parameter given.
item_set_transform_each(args, w, a) ==
    LET name == "item_set_transform"
        item == find_item("_find_item", w, a[1])
        body ==
            IF item.kind = "raise" THEN Applied(item, 0)
            ELSE IF args.count = 0
            THEN Applied(Rse("ResolveOperationFailed", name, "invalid args",
                             item.ext, {}, FALSE), 0)
            ELSE StepLoop(name, a, 2, 1 + args.count, item.ext)
    IN  Applied(Catch(StdHandlers, body, name), body.applied)

Arg_timeline_add_track ==
    /\ tl_args.kind = "steps"
    /\ Call("timeline_add_track",
            timeline_add_track(tl_args, tl_world, tl_ans))

Arg_item_set_transform ==
    /\ tl_args.kind = "steps"
    /\ tl_args.count < MaxCalls
    /\ Call("item_set_transform",
            item_set_transform_each(tl_args, tl_world, tl_ans))

\* ---- end of the tools with arguments

\* One tool call on any arguments of the tool, any state of the application
\* and any answers of the application.
ArgInputs ==
    /\ tl_name = "none"
    /\ tl_ok = TRUE
    /\ \/ /\ \/ tl_args \in TrackArgs
             \/ tl_args \in CdlArgs
             \/ tl_args \in NameArgs
             \/ tl_args \in StepArgs
          /\ tl_ans \in AnswerLists
       \/ /\ \/ tl_args \in PageArgs
             \/ tl_args \in ClipArgs
          /\ tl_ans \in [1..MaxCalls -> {"truthy"}]
    /\ tl_world \in Worlds
    /\ tl_out = NoResult

ArgInit == ConnIdle /\ FindIdle /\ ArgInputs

ArgNext ==
    \/ Arg_fusion_get_comp_count
    \/ Arg_color_set_cdl
    \/ Arg_timeline_get_track_count
    \/ Arg_timeline_delete_clips
    \/ Arg_timeline_set_name
    \/ Arg_clip_set_name
    \/ Arg_timeline_get_items_in_track
    \/ Arg_media_pool_create_timeline_from_clips
    \/ Arg_timeline_append_clips
    \/ Arg_timeline_add_track
    \/ Arg_item_set_transform

ArgSpec == ArgInit /\ [][ArgNext]_vars

TypeOK ==
    /\ instance \in Instances \cup {None}
    /\ cls_lock \in Threads \cup {NoThread}
    /\ created \in 0..MaxInstances
    /\ resolve \in [Instances -> Handles \cup {None}]
    /\ script_module \in [Instances -> BOOLEAN]
    /\ last_health_check \in [Instances -> 0..MaxClock]
    /\ conn_lock \in [Instances -> Threads \cup {NoThread}]
    /\ api \in [Threads -> Instances \cup {None}]
    /\ clock \in 0..MaxClock
    /\ live \subseteq Handles
    /\ issued \in 0..MaxHandles

\* ---------------------------------------------------------------- claims
\* The thread is inside the with block of _ensure_connected.
InCall(t) == pc[t] \in {"ec_check", "ec_probe", "ec_connect", "ec_request",
                        "ec_stamp", "ec_exit"}

\* The cached handle the call found was checked less than a freshness window
\* before the call read the clock / a window or more before.
FoundFresh(t) ==
    entryHandle[t] # None /\ now[t] - entryCheck[t] < HEALTH_CHECK_TTL
FoundStale(t) ==
    entryHandle[t] # None /\ now[t] - entryCheck[t] >= HEALTH_CHECK_TTL

\* C1 as stated: once a call has succeeded on an object, no caller that
\* enters the check/reconnect sequence finds the handle field null and no
\* call returns null.
C1_NeverNullAfterSuccess ==
    \A t \in Threads :
        /\ (pc[t] = "ec_check" /\ succeeded[api[t]]) => resolve[api[t]] # None
        /\ (pc[t] = "ec_exit" /\ outcome[t] = "handle") => ret[t] # None

\* C1 amended: no call returns null, and a caller that enters the sequence
\* after a success finds the handle field null only when the last call that
\* ended on that object failed (its probe raised and its reconnection gave
\* no handle); the null a reconnecting call stores while it holds the lock
\* is seen by no other caller.
C1_NullOnlyAfterFailure ==
    \A t \in Threads :
        /\ (pc[t] = "ec_exit" /\ outcome[t] = "handle")
              => ret[t] # None /\ ret[t] = resolve[api[t]]
        /\ (pc[t] = "ec_check" /\ succeeded[api[t]] /\ resolve[api[t]] = None)
              => lastOutcome[api[t]] \in {"NotRunning", "Error"}
        /\ (pc[t] = "ec_check" /\ lastOutcome[api[t]] = "handle")
              => resolve[api[t]] # None

\* A caller enters after an earlier success and finds the handle null.
C1_Witness ==
    \E t \in Threads :
        /\ pc[t] = "ec_check"
        /\ succeeded[api[t]]
        /\ resolve[api[t]] = None
        /\ lastOutcome[api[t]] = "NotRunning"

\* C2 as stated: a call issues at most one external call, the probe and the
\* connection request counted alike.
C2_AtMostOneExternalCall ==
    \A t \in Threads : probes[t] + requests[t] <= 1

\* C2 amended: a call issues no external call when the cached handle is
\* within the freshness window; otherwise at most one probe and at most one
\* connection request (after at most one load of the bridging library), and
\* both of them only when the probe raised.
C2_ProbeThenRequest ==
    \A t \in Threads :
        /\ probes[t] <= 1 /\ requests[t] <= 1 /\ loads[t] <= 1
        /\ (probes[t] + requests[t] = 2) => probeRaised[t]
        /\ (probes[t] = 1 /\ loads[t] = 1) => probeRaised[t]
        /\ (InCall(t) /\ FoundFresh(t))
              => probes[t] + requests[t] + loads[t] = 0

\* A call has probed and requested a connection.
C2_Witness ==
    \E t \in Threads : pc[t] = "ec_exit" /\ probes[t] = 1 /\ requests[t] = 1

\* C3: on one object at most one caller at a time is inside the sequence
\* and it holds the lock; a new handle is built only by the one caller that
\* found the handle absent or stale; a caller that enters sees a handle
\* only together with the time written for it.
C3_Serialized ==
    /\ \A t1, t2 \in Threads :
          (t1 # t2 /\ InCall(t1) /\ InCall(t2)) => api[t1] # api[t2]
    /\ \A t \in Threads :
          /\ InCall(t) => conn_lock[api[t]] = t
          /\ (pc[t] \in {"ec_connect", "ec_request", "ec_stamp"})
                => (entryHandle[t] = None \/ probeRaised[t])
          /\ (pc[t] = "ec_check" /\ resolve[api[t]] # None)
                => stampFor[api[t]] = resolve[api[t]]
          /\ (pc[t] = "ec_check")
                => /\ resolve[api[t]] = entryHandle[t]
                   /\ last_health_check[api[t]] = entryCheck[t]

\* One caller has stored a new handle and not yet its time, while another
\* caller of the same object is kept out.
C3_Witness ==
    \E t1, t2 \in Threads :
        /\ t1 # t2
        /\ api[t1] = api[t2]
        /\ pc[t1] = "ec_stamp"
        /\ pc[t2] = "idle"
        /\ stampFor[api[t1]] # resolve[api[t1]]

\* C4 as stated: a call ends with a handle that refers to a running
\* application, or with NotRunning, and in no other way.
C4_LiveHandleOrNotRunning ==
    \A t \in Threads :
        pc[t] = "ec_exit" =>
            \/ outcome[t] = "handle" /\ wasLive[t]
            \/ outcome[t] = "NotRunning"

\* C4 amended: a call ends in one of three ways.  It returns the non-null
\* cached handle, which was checked by a probe or obtained by a connection
\* in this call, or less than a freshness window before this call read the
\* clock (so the application may be gone).  Or it fails with NotRunning
\* because the import failed or scriptapp() gave no object.  Or the
\* exception raised by scriptapp() leaves the call as it is.
C4_CheckedHandleOrFailure ==
    \A t \in Threads :
        pc[t] = "ec_exit" =>
            LET i == api[t] IN
            \/ /\ outcome[t] = "handle"
               /\ ret[t] # None
               /\ ret[t] = resolve[i]
               /\ stampFor[i] = ret[t]
               /\ \/ /\ probes[t] = 0 /\ requests[t] = 0
                     /\ ret[t] = entryHandle[t]
                     /\ now[t] - last_health_check[i] < HEALTH_CHECK_TTL
                  \/ /\ probes[t] = 1 /\ ~probeRaised[t] /\ requests[t] = 0
                     /\ ret[t] = entryHandle[t]
                     /\ wasLive[t]
                  \/ /\ met[t] = "object"
                     /\ wasLive[t]
            \/ /\ outcome[t] = "NotRunning"
               /\ met[t] \in {"import failed", "none"}
               /\ resolve[i] = None
            \/ /\ outcome[t] = "Error"
               /\ met[t] = "raise"
               /\ resolve[i] = None

\* A call returns, unprobed, a handle whose application has exited.
C4_Witness ==
    \E t \in Threads :
        /\ pc[t] = "ec_exit"
        /\ outcome[t] = "handle"
        /\ probes[t] = 0
        /\ ret[t] \notin live
        /\ ~wasLive[t]

C6_FreshReturnsCached ==
    \A t \in Threads :
        (InCall(t) /\ FoundFresh(t)) =>
            LET i == api[t] IN
            /\ pc[t] \in {"ec_check", "ec_exit"}
            /\ probes[t] = 0 /\ requests[t] = 0 /\ loads[t] = 0
            /\ resolve[i] = entryHandle[t]
            /\ stampFor[i] = entryHandle[t]
            /\ last_health_check[i] = entryCheck[t]
            /\ pc[t] = "ec_exit"
                  => outcome[t] = "handle" /\ ret[t] = entryHandle[t]

\* A call returns the cached handle in the last second of the window.
C6_Witness ==
    \E t \in Threads :
        /\ pc[t] = "ec_exit"
        /\ entryHandle[t] # None
        /\ now[t] - entryCheck[t] = HEALTH_CHECK_TTL - 1
        /\ outcome[t] = "handle"
        /\ ret[t] = entryHandle[t]

\* C7: a call that finds a cached handle checked 5 seconds or more before
\* probes it exactly once; when the probe succeeds the call stores its clock
\* reading as the time of the last check and returns the same handle,
\* without a load or a connection request.
C7_StaleProbedOnce ==
    \A t \in Threads :
        (InCall(t) /\ FoundStale(t)) =>
            LET i == api[t] IN
            /\ probes[t] <= 1
            /\ pc[t] \notin {"ec_check", "ec_probe"} => probes[t] = 1
            /\ (probes[t] = 1 /\ ~probeRaised[t])
                  => /\ pc[t] = "ec_exit"
                     /\ outcome[t] = "handle"
                     /\ ret[t] = entryHandle[t]
                     /\ resolve[i] = entryHandle[t]
                     /\ last_health_check[i] = now[t]
                     /\ stampFor[i] = entryHandle[t]
                     /\ requests[t] = 0 /\ loads[t] = 0

\* A call returns a handle it probed exactly when the window had elapsed.
C7_Witness ==
    \E t \in Threads :
        /\ pc[t] = "ec_exit"
        /\ entryHandle[t] # None
        /\ now[t] - entryCheck[t] = HEALTH_CHECK_TTL
        /\ probes[t] = 1 /\ ~probeRaised[t]
        /\ outcome[t] = "handle"

C9_StampAlwaysBelongsToHandle ==
    \A i \in Instances : resolve[i] # None => stampFor[i] = resolve[i]

\* C9 amended: outside the two statements that store a new handle and then
\* its time (lines 157-158, run with the lock held), a non-null handle is
\* paired with the time written for that same handle by a probe or after
\* the connection, no earlier than the handle was obtained and no later
\* than the present.
C9_StampBelongsToHandle ==
    \A i \in Instances :
        (resolve[i] # None /\ ~(\E t \in Threads : pc[t] = "ec_stamp" /\ api[t] = i))
            => /\ stampFor[i] = resolve[i]
               /\ obtainedAt[i] <= last_health_check[i]
               /\ last_health_check[i] <= clock

\* A cache at rest holds a handle obtained after the start of the clock.
C9_Witness ==
    \E i \in Instances :
        /\ conn_lock[i] = NoThread
        /\ resolve[i] # None
        /\ obtainedAt[i] > 0
        /\ last_health_check[i] > obtainedAt[i]

\* C10 as stated: once an object has had a handle, every change of the
\* handle belongs to a call whose probe of it raised, which replaces it,
\* and no call leaves the handle null.
C10_OnlyReplacedAfterFailedProbe ==
    [][ \A i \in Instances :
            stampFor[i] # None =>
                /\ resolve'[i] # resolve[i] =>
                      \E t \in Threads :
                          conn_lock[i] = t /\ api[t] = i /\ probeRaised'[t]
                /\ (conn_lock[i] # NoThread /\ conn_lock'[i] = NoThread)
                      => resolve[i] # None
      ]_vars

\* C10 amended: the handle of an object changes in two ways only, both
\* inside a call that holds the lock: the probe of the call raised and the
\* handle is cleared, or the handle is null and a connection stores a newly
\* constructed one.  That happens in the call that cleared it or, when its
\* reconnection fails and leaves the handle null, in a later call.  reset()
\* and get_instance() change no handle: reset() only drops the singleton.
\* A successful call returns the handle the object holds at that moment.
C10_HandleChanges ==
    [][ /\ \A i \in Instances :
              /\ resolve'[i] # resolve[i] =>
                    \E t \in Threads :
                        /\ conn_lock[i] = t /\ api[t] = i
                        /\ \/ /\ pc[t] = "ec_probe"
                              /\ probeRaised'[t]
                              /\ resolve'[i] = None
                           \/ /\ pc[t] = "ec_request"
                              /\ resolve[i] = None
                              /\ issued' = issued + 1
                              /\ resolve'[i] = issued'
              /\ (conn_lock[i] # NoThread /\ conn_lock'[i] = NoThread
                     /\ resolve[i] = None)
                    => outcome[conn_lock[i]] \in {"NotRunning", "Error"}
        /\ instance' # instance => resolve' = resolve
        /\ \A t \in Threads :
              (pc[t] = "ec_exit" /\ pc'[t] = "ac_call")
                  => ret[t] = resolve[api[t]] /\ ret[t] # None
      ]_vars

\* After a reset, a call on the dropped object stores a new handle in a
\* cache that an earlier call had left null.
C10_Witness ==
    \E t \in Threads :
        /\ pc[t] = "ec_stamp"
        /\ entryHandle[t] = None
        /\ stampFor[api[t]] # None
        /\ instance # api[t]

\* The thread has returned from a get_instance() call and has not begun
\* another one: api[t] is what that call returned.
Returned(t) ==
    gi_last[t] # NoCall /\ pc[t] \notin {"gi_lock", "gi_create", "gi_return"}

\* C11: two get_instance() calls with no reset() from the beginning of the
\* first to the return of the last return the same object, also when both
\* found no singleton at line 105 and went for the class lock; a call begun
\* after a reset() that followed the return of another call returns another
\* object than that call did.
C11_SameUntilReset ==
    \A a, b \in Threads :
        (Returned(a) /\ Returned(b)) =>
            /\ (gi_first[a] = gi_last[a] /\ gi_first[b] = gi_last[b]
                   /\ gi_first[a] = gi_first[b])
                  => api[a] = api[b] /\ api[a] # None
            /\ (gi_last[a] < gi_first[b] /\ api[a] # None) => api[b] # api[a]

\* First access by two threads at once: one has returned the object it
\* constructed, the other, which also found no singleton at line 105, holds
\* the class lock and is at the second check.
C11_Witness ==
    \E a, b \in Threads :
        /\ a # b
        /\ Returned(a)
        /\ api[a] # None
        /\ api[a] = instance
        /\ resets = 0
        /\ pc[b] = "gi_create"
        /\ cls_lock = b

\* C12: the lock of an object is held only by a thread that is inside the
\* check/reconnect sequence of that object; a thread that has left the
\* sequence, by a return or by an exception, holds no lock, and none while
\* it makes the external calls that follow the return of the handle.
C12_LockOnlyInSequence ==
    /\ \A i \in Instances, t \in Threads :
          conn_lock[i] = t => (InCall(t) /\ api[t] = i)
    /\ \A t \in Threads :
          pc[t] \in {"idle", "ac_call"} => \A i \in Instances : conn_lock[i] # t

\* A thread is making its own external calls with the handle it was
\* returned while another thread is inside the sequence of the same object,
\* probing the handle with the lock held.
C12_Witness ==
    \E t, u \in Threads :
        /\ t # u
        /\ pc[t] = "ac_call"
        /\ ret[t] # None
        /\ api[u] = api[t]
        /\ pc[u] = "ec_probe"
        /\ conn_lock[api[t]] = u

\* The helper call has valid arguments and finds a timeline.
FindReachesScan ==
    /\ fi_type \in VALID_TRACK_TYPES
    /\ fi_index >= 1
    /\ api_timeline(fi_world) = "object"

\* The first position of the list that holds the searched name, or 0.
FirstMatch ==
    IF \E j \in 1..Len(fi_items) : fi_items[j] = fi_name
    THEN CHOOSE j \in 1..Len(fi_items) :
             /\ fi_items[j] = fi_name
             /\ \A k \in 1..(j - 1) : fi_items[k] # fi_name
    ELSE 0

\* C14: a track_type outside {video, audio, subtitle} and a track_index
\* below 1 end the helper with OperationFailed naming the helper and the
\* violated constraint (track_type when both are violated), and the helper
\* has made no call to the connection cache or the application, whatever
\* the application has open.
C14_RejectsBeforeAnyCall ==
    /\ (fi_type \notin VALID_TRACK_TYPES \/ fi_index < 1) => fi_ext = 0
    /\ fi_pc = "fi_done" =>
          /\ fi_type \notin VALID_TRACK_TYPES
                => fi_out = Raised("ResolveOperationFailed", fi_helper, "track_type")
          /\ (fi_type \in VALID_TRACK_TYPES /\ fi_index < 1)
                => fi_out = Raised("ResolveOperationFailed", fi_helper, "track_index")
          /\ fi_out.detail = "track_type" => fi_type \notin VALID_TRACK_TYPES
          /\ fi_out.detail = "track_index" => fi_index < 1

\* A call with track_index 0 on a track that holds the searched item is
\* rejected without a call.
C14_Witness ==
    /\ fi_pc = "fi_done"
    /\ fi_type = "video"
    /\ fi_index = 0
    /\ fi_world = "open"
    /\ FirstMatch = 1
    /\ fi_out.detail = "track_index"
    /\ fi_ext = 0

\* C15 as stated: an item whose GetName() raises, whatever it raises, is
\* skipped, so the first item with the searched name is returned whenever
\* the list holds one.
C15_AnyRaiseSkipped ==
    (fi_pc = "fi_done" /\ FindReachesScan /\ FirstMatch # 0)
        => fi_out = Found(FirstMatch)

\* C15 amended: an item whose GetName() raises AttributeError is skipped and
\* the scan goes on, so a later item with the searched name is still
\* returned; any other exception raised by GetName() ends the helper at
\* that item and leaves it as it is.
C15_StaleSkipped ==
    (fi_pc = "fi_done" /\ FindReachesScan /\ Len(fi_items) > 0) =>
        LET stops == {j \in 1..Len(fi_items) : fi_items[j] \in {fi_name, "Error"}}
            stop == IF stops = {} THEN Len(fi_items) + 1
                    ELSE CHOOSE j \in stops : \A k \in stops : j <= k
        IN
        /\ fi_skipped = {j \in 1..(stop - 1) : fi_items[j] = "AttributeError"}
        /\ fi_out.what # "AttributeError"
        /\ stop > Len(fi_items)
              => fi_out = Raised("ResolveOperationFailed", fi_helper, "not found")
        /\ (stop <= Len(fi_items) /\ fi_items[stop] = fi_name)
              => fi_out = Found(stop)
        /\ (stop <= Len(fi_items) /\ fi_items[stop] = "Error")
              => fi_out = Raised("Error", "", "")

\* The helper returns the second item after it skipped the first, whose
\* GetName() raised AttributeError.
C15_Witness ==
    /\ fi_pc = "fi_done"
    /\ Len(fi_items) >= 2
    /\ fi_items[1] = "AttributeError"
    /\ fi_skipped = {1}
    /\ fi_out = Found(2)

\* C16: the item the helper returns holds the searched name, and every item
\* before it in the list holds another name or was skipped.
C16_FirstMatchWins ==
    fi_out.kind = "return" =>
        /\ fi_out.item \in 1..Len(fi_items)
        /\ fi_items[fi_out.item] = fi_name
        /\ \A j \in 1..(fi_out.item - 1) :
              /\ fi_items[j] # fi_name
              /\ fi_items[j] \in Names \/ j \in fi_skipped
        /\ fi_out.item = FirstMatch

\* Two items hold the searched name, after an item with another name: the
\* earlier of the two is returned.
C16_Witness ==
    /\ fi_out.kind = "return"
    /\ fi_out.item = 2
    /\ Len(fi_items) = 3
    /\ fi_items[1] \in Names
    /\ fi_items[3] = fi_name

\* A tool call has ended.
Ended == tl_name # "none"

\* C13: with the application reachable and no project (or no timeline) open,
\* the nullable accessors return None, and a tool never reports the state
\* 'nothing open' as ResolveNotRunning.  The media pool tools do: their
\* _require_pool() raises ResolveNotRunning when the media pool is None.
C13_NothingOpenNeverNotRunning ==
    /\ tl_world = "no project" =>
            /\ api_project(tl_world) = "None"
            /\ api_media_pool(tl_world) = "None"
            /\ api_timeline(tl_world) = "None"
    /\ tl_world = "no timeline" => api_timeline(tl_world) = "None"
    /\ (Ended /\ tl_out.cause = "nothing open") =>
            ~(tl_out.kind = "raise" /\ tl_out.what = "ResolveNotRunning")

\* C17: a tool that rejects its own arguments raises ResolveOperationFailed
\* before it has made any external call.  color_set_cdl and
\* item_set_transform reject theirs only after the lookup of the item.
C17_ValidationBeforeAnyCall ==
    (Ended /\ tl_out.cause = "invalid args") =>
        /\ tl_out.kind = "raise"
        /\ tl_out.what = "ResolveOperationFailed"
        /\ tl_out.ext = 0

\* An external call of the tool raised AttributeError.
AttributeMissing == Ended /\ "AttributeError" \in tl_out.seen

IsNotRunning(o) == o.kind = "raise" /\ o.what = "ResolveNotRunning"

IsOperationFailed(o, name) ==
    o.kind = "raise" /\ o.what = "ResolveOperationFailed" /\ o.op = name

OtherException == Ended /\ tl_out.seen \cap {"TypeError", "Error"} # {}

\* C19 as stated: in every tool any other exception reaches the caller as
\* ResolveOperationFailed carrying the tool's own name.
C19_OtherIsOperationFailed ==
    OtherException => IsOperationFailed(tl_out, tl_name)

\* What the second attempt of a tool that makes one was answered.
SecondAnswer ==
    IF tl_name = "gallery_export_stills" THEN tl_ans[3] ELSE tl_ans[2]

\* C19: whatever an external call raises, only ResolveNotRunning and
\* ResolveOperationFailed leave a tool; an exception other than those two and
\* AttributeError that reaches the tool's except clauses leaves it as
\* ResolveOperationFailed carrying the tool's own name.  A TypeError of the
\* first ApplyFairlightPreset() or ExportStills() does not reach them: the
\* tool goes on with its second call, whose own exception is wrapped.
C19_OtherWrappedAtBoundary ==
    /\ (Ended /\ tl_out.kind = "raise") => tl_out.what \in ResolveErrors
    /\ (OtherException /\ ~tl_out.again) =>
            IsOperationFailed(tl_out, tl_name)
    /\ (OtherException /\ tl_out.again
            /\ SecondAnswer \in {"TypeError", "Error"}) =>
            IsOperationFailed(tl_out, tl_name)

\* timeline_set_current wraps an exception of SetCurrentTimeline().
C19_Witness ==
    /\ OtherException
    /\ tl_name = "timeline_set_current"
    /\ tl_ans[3] = "Error"
    /\ tl_out.ext = 4
    /\ IsOperationFailed(tl_out, "timeline_set_current")

ReachedFirstAttempt ==
    /\ api_project(tl_world) = "object"
    /\ tl_name = "gallery_export_stills" => tl_ans[1] = "truthy"

FirstAnswer ==
    IF tl_name = "gallery_export_stills" THEN tl_ans[2] ELSE tl_ans[1]

C21_InvalidTrackTypeRaises ==
    (Ended /\ tl_name = "fusion_get_comp_count"
        /\ tl_args.type \notin VALID_TRACK_TYPES) =>
        tl_out.kind = "raise"


\* color_set_cdl handed the cdl to SetCDL(): its fourth external call.
SetCDLCalled == tl_out.ext = 4

\* C22: color_set_cdl given a Slope list whose length is not 3 raises and
\* does not send the CDL to the application.  CDLValues accepts a list of
\* any length, so the CDL reaches SetCDL() and the tool returns True.
C22_SlopeLengthRejected ==
    (Ended /\ tl_name = "color_set_cdl" /\ tl_args.list /\ tl_args.len # 3) =>
        /\ tl_out.kind = "raise"
        /\ ~SetCDLCalled


\* The tool got as far as handing its arguments to a method of the timeline:
\* its second external call, after the accessor.
ReachedTimelineCall == tl_out.ext >= 2

\* C23: timeline_get_track_count rejects a track_type outside {video, audio,
\* subtitle} and timeline_delete_clips rejects a track_index below 1, instead
\* of passing them to the application.  Neither tool checks its track
\* coordinates: they reach GetTrackCount() and GetItemListInTrack().
C23_TrackCoordinatesRejected ==
    /\ (Ended /\ tl_name = "timeline_get_track_count"
            /\ tl_args.type \notin VALID_TRACK_TYPES) =>
            tl_out.kind = "raise" /\ ~ReachedTimelineCall
    /\ (Ended /\ tl_name = "timeline_delete_clips" /\ tl_args.index < 1) =>
            tl_out.kind = "raise" /\ ~ReachedTimelineCall


\* Python's `not name.strip()` on the names of the model.
IsBlank(name) == name \in {"", " "}

\* The rename tool handed the new name to the application: SetName() is the
\* second external call of timeline_set_name, SetClipProperty() the fifth of
\* clip_set_name.
NamePassed ==
    tl_out.ext >= IF tl_name = "timeline_set_name" THEN 2 ELSE 5

\* C24: timeline_set_name and clip_set_name reject an empty or whitespace-only
\* new name and do not pass it to the application.  Neither tool looks at the
\* name: it reaches SetName() and SetClipProperty().
C24_BlankNameRejected ==
    (Ended /\ tl_name \in {"timeline_set_name", "clip_set_name"}
        /\ IsBlank(tl_args.name)) =>
        tl_out.kind = "raise" /\ ~NamePassed


\* C25: for every integer offset and limit, timeline_get_items_in_track
\* returns at most limit items (none for a limit below 1), none of them
\* located before position offset, in track order.  offset and limit go
\* unchecked into a Python slice, so a negative limit counts from the end of
\* the track: with offset 0 and limit -1 the tool returns every item but the
\* last.
C25_PageWithinOffsetAndLimit ==
    (Ended /\ tl_name = "timeline_get_items_in_track"
        /\ tl_out.kind = "return") =>
        LET page == tl_out.what
        IN  /\ Len(page) <= IF tl_args.limit < 0 THEN 0 ELSE tl_args.limit
            /\ \A k \in 1..Len(page) : page[k] > tl_args.offset
            /\ \A k \in 1..(Len(page) - 1) : page[k] < page[k + 1]


\* The tool handed a list of clips to the application.
ClipsHanded ==
    /\ Ended
    /\ tl_name \in {"media_pool_create_timeline_from_clips",
                    "timeline_append_clips"}
    /\ tl_out.handed # << >>

\* No name occurs twice in the list.
NoDuplicate(s) == Cardinality(ElementsOf(s)) = Len(s)

\* C26: a tool that takes an ordered list of clip names (each of them once,
\* each the name of one clip of the folder) hands the clips to
\* the application in the order of the request.  timeline_append_clips does;
\* media_pool_create_timeline_from_clips hands them over in the order of the
\* media pool folder.
C26_ClipsInRequestOrder ==
    (ClipsHanded /\ NoDuplicate(tl_args.names) /\ NoDuplicate(tl_args.folder)
        /\ ElementsOf(tl_args.names) \subseteq ElementsOf(tl_args.folder)) =>
        tl_out.handed = tl_args.names


\* A tool of several steps raised after it had got as far as its steps.
StepToolRaised ==
    /\ Ended
    /\ tl_args.kind = "steps"
    /\ tl_out.kind = "raise"

\* The answers to the steps of the call, in their order.
StepAnswers ==
    IF tl_name = "timeline_add_track"
    THEN [i \in 1..tl_args.count |-> tl_ans[i]]
    ELSE [i \in 1..tl_args.count |-> tl_ans[1 + i]]

\* The call got as far as its first step: a timeline is open, and for
\* item_set_transform the item was found and a parameter was given.
ReachedSteps ==
    /\ tl_world = "open"
    /\ tl_name = "item_set_transform" =>
            (tl_ans[1] = "truthy" /\ tl_args.count > 0)

\* C29 as stated: when a multi-step tool raises, none of its steps has been
\* carried out.
C29_AllOrNothing == StepToolRaised => tl_out.applied = 0

\* C29: a multi-step tool carries out its steps in order and stops at the
\* first one that fails.  When it raises, the steps before the failing one
\* have been carried out and stay so, and no later step is attempted; when
\* it returns True all of them have been carried out.
C29_StepsBeforeFailureStay ==
    (Ended /\ tl_args.kind = "steps") =>
        LET n == tl_out.applied
        IN  /\ n \in 0..tl_args.count
            /\ \A i \in 1..n : StepAnswers[i] = "truthy"
            /\ tl_out.kind = "return" => n = tl_args.count
            /\ (tl_out.kind = "raise" /\ ReachedSteps) =>
                    /\ n < tl_args.count
                    /\ StepAnswers[n + 1] # "truthy"
            /\ ~ReachedSteps => n = 0

\* timeline_add_track with count 2 raises at its second AddTrack(): one track
\* has been added.
C29_Witness ==
    /\ StepToolRaised
    /\ tl_name = "timeline_add_track"
    /\ tl_args.count = 2
    /\ tl_ans[1] = "truthy"
    /\ tl_ans[2] = "falsy"
    /\ tl_out.applied = 1


\* The connection object raised ResolveNotRunning during the call: the
\* application is unreachable, or it gave no project manager.
NotRunningRaised ==
    /\ Ended
    /\ tl_out.kind = "raise"
    /\ tl_out.cause \in {"unreachable", "no manager"}

\* C28: a ResolveNotRunning raised by the connection object or one of its
\* accessors during a tool call reaches the caller of every tool as
\* ResolveNotRunning.  timeline_get_current has no clause that re-raises it:
\* its `except Exception` turns it into ResolveOperationFailed.
C28_NotRunningReachesCaller == NotRunningRaised => IsNotRunning(tl_out)

\* C27: get_instance() returns a ResolveAPI object and never None, whatever
\* reset() and get_instance() calls of other threads run in between.  The
\* value returned is read at line 110 without the class lock: a reset()
\* between a thread's check at line 105 (or its release of the lock) and its
\* return makes get_instance() return None.
C27_NeverReturnsNone == \A t \in Threads : Returned(t) => api[t] # None

\* The call of thread t is about to leave _ensure_connected with
\* ResolveNotRunning.
FailsNotRunning(t) == pc[t] = "ec_exit" /\ outcome[t] = "NotRunning"

\* The call of thread t is at its end, and the call before it on the same
\* object ended with ResolveNotRunning.
EndsAfterFailure(t) ==
    /\ pc[t] = "ec_exit"
    /\ lastOutcome[api[t]] = "NotRunning"

\* C30: a failed connection attempt is not cached.  When _ensure_connected
\* fails with ResolveNotRunning, self._resolve is None and
\* self._last_health_check is what it was when the call began.  The next
\* call on the object finds no handle, makes no probe and no comparison
\* with the time of the last check, attempts a connection again, and
\* returns the handle if the bridge hands one out, however little time has
\* passed since the failure.
C30_FailureNotCached ==
    \A t \in Threads :
        /\ FailsNotRunning(t) =>
                /\ resolve[api[t]] = None
                /\ last_health_check[api[t]] = entryCheck[t]
        /\ EndsAfterFailure(t) =>
                /\ entryHandle[t] = None
                /\ probes[t] = 0
                /\ loads[t] + requests[t] >= 1
                /\ met[t] = "object" =>
                        /\ outcome[t] = "handle"
                        /\ ret[t] # None
                        /\ ret[t] = resolve[api[t]]

\* The call after a failure returns a handle although no time
\* has passed since the object was constructed: by the comparison of line
\* 146 alone the last check would still count as recent.
C30_Witness ==
    \E t \in Threads :
        /\ EndsAfterFailure(t)
        /\ outcome[t] = "handle"
        /\ met[t] = "object"
        /\ WithinTtl(now[t], entryCheck[t])

====
